---- MODULE Spec2Model ----
(***************************************************************************)
(* Model of the LIDAR edge service: the SOPAS telegram framer and parser   *)
(* (mrs1000_parser.py), and the zone evaluator (measurement_evaluator.py). *)
(* Bytes are integers 0..255, byte strings are sequences of bytes.         *)
(* Angles are kept in the telegram's unit (1/10000 degree), distances of   *)
(* the evaluator in millimetres, so that every comparison is exact.        *)
(***************************************************************************)
EXTENDS Integers, Sequences, FiniteSets, TLC

VARIABLES
    \* ---- framer (MRS1000Parser.buffer and the driver feeding it)
    stream,        \* the bytes the sensor sends, in order
    pos,           \* how many bytes of stream have been handed to feed()
    buffer,        \* MRS1000Parser.buffer
    emitted,       \* payloads that passed the checksum, in order of extraction
    scans,         \* scans returned by the feed() calls so far, in order
    calls,         \* number of feed() calls made: 0, 1, 2, or 3 for three and more
    scan_count,    \* MRS1000Parser.scan_count
    \* ---- parser (one payload handed to _parse_scan_data)
    params,        \* the fields the sensor put into the telegram body
    telegram,      \* the payload bytes of the telegram
    result,        \* Pending, or what _parse_scan_data returned
    \* ---- evaluator (MeasurementEvaluator)
    products,          \* MeasurementEvaluator.products: id -> ProductConfig
    active_product_id, \* MeasurementEvaluator.active_product_id
    evaluation_count,  \* MeasurementEvaluator.evaluation_count
    good_count,        \* MeasurementEvaluator.good_count
    bad_count,         \* MeasurementEvaluator.bad_count
    last,              \* the last call made: its name, argument, outcome, and
                       \* the three counters as they were when it was made
    \* ---- threads of the evaluator (event loop and one fieldbus client)
    pc,                \* thread -> the statement it is about to execute
    lock,              \* MeasurementEvaluator._lock: "free" or the holder
    store_lock,        \* ModbusDataStore._lock: "free" or the holder
    local,             \* evaluate_scan's local variables on the event loop
    \* ---- result callbacks of the evaluator
    callbacks,         \* MeasurementEvaluator._result_callbacks, by kind
    notified,          \* the callback invocations of the last evaluate_scan
    \* ---- persistence
    document,          \* the configuration file at config_path, None if absent
    key_order,         \* the keys of MeasurementEvaluator.products in dict order
    \* ---- fieldbus register store (ModbusDataStore) and its server
    holding_registers, \* ModbusDataStore.holding_registers: address -> word
    coils,             \* ModbusDataStore.coils: address -> BOOLEAN
    request,           \* the last fieldbus request and its response
    \* ---- one zone handed to _evaluate_zone
    zone_in,           \* the MeasurementZone
    distances_in,      \* the distances collected for it, in scan order
    outcome,           \* Pending, or what _evaluate_zone returned
    \* ---- UDP receiver (MRS1000Receiver)
    data_queue,        \* MRS1000Receiver._data_queue, oldest scan first
    packets_received,  \* MRS1000Receiver.packets_received
    scans_parsed,      \* MRS1000Receiver.scans_parsed
    errors,            \* MRS1000Receiver.errors
    delivered,         \* the scans handed to the registered callback, in order
    taken,             \* the scans get_scan() returned to its callers, in order
    sensor_ip,         \* ReceiverConfig.sensor_ip, "" for None (no filter)
    inbound,           \* the datagrams sent to the port and not yet received,
                       \* each with the address of its sender, oldest first
    bytes_received,    \* MRS1000Receiver.bytes_received
    \* ---- EtherNet/IP server (EtherNetIPServer) and its UDP endpoint
    eip_server,        \* the EtherNetIPServer object, None before construction
    eip_clock,         \* time.time(), in microseconds since the server was built
    eip_io,            \* the last request received and the response sent for it
    eip_outputs,       \* the output-callback invocations of the last request
    \* ---- dashboard broadcast (the application's WebSocket clients)
    ws_clients,        \* LidarApp.ws_clients
    fanout,            \* the position of _broadcast_scan in its loop over ws_clients
    ws_stats,          \* stats['ws_messages_sent'] and stats['scans_sent']
    ws_closed          \* the WebSocket connections whose handler has returned

framerVars == <<stream, pos, buffer, emitted, scans, calls, scan_count>>
parserVars == <<params, telegram, result>>
counterVars == <<evaluation_count, good_count, bad_count>>
evalVars == <<products, active_product_id, counterVars, last>>
notifyVars == <<callbacks, notified>>
storeVars == <<holding_registers, coils, request>>
zoneVars == <<zone_in, distances_in, outcome>>
persistVars == <<document, key_order>>
appVars == <<notifyVars, persistVars, storeVars, zoneVars>>
threadVars == <<pc, lock, store_lock, local>>
socketVars == <<sensor_ip, inbound>>
receiverVars == <<data_queue, packets_received, scans_parsed, errors, delivered, taken,
                  socketVars, bytes_received>>
eipVars == <<eip_server, eip_clock, eip_io, eip_outputs>>
wsVars == <<ws_clients, fanout, ws_stats, ws_closed>>
ioVars == <<receiverVars, eipVars, wsVars>>

vars == <<framerVars, parserVars, evalVars, threadVars, appVars, ioVars>>

\* Python's None where an object (a ScanData, a ProductConfig) is expected
None == [none |-> TRUE]

(***************************************************************************)
(* Byte-string helpers (Python slices, bytes.find, struct.unpack).         *)
(***************************************************************************)
Min(a, b) == IF a < b THEN a ELSE b

\* data[a:b] with Python's clamping of the upper index
Slice(data, a, b) == SubSeq(data, a + 1, Min(b, Len(data)))

\* del data[:n]
DropFirst(data, n) == SubSeq(data, n + 1, Len(data))

RECURSIVE FindFrom(_, _, _)
\* bytes.find(pat, i): the 0-based index of the first occurrence at or after i, or -1
FindFrom(data, pat, i) ==
    IF i + Len(pat) > Len(data) THEN -1
    ELSE IF \A j \in 1..Len(pat) : data[i + j] = pat[j] THEN i
    ELSE FindFrom(data, pat, i + 1)

\* bit k of the XOR of all bytes: the parity of the bytes that have bit k set
XorBit(payload, w) ==
    Cardinality({i \in 1..Len(payload) : (payload[i] \div w) % 2 = 1}) % 2

RECURSIVE SumUpTo(_, _)
SumUpTo(payload, n) == IF n = 0 THEN 0 ELSE SumUpTo(payload, n - 1) + payload[n]

\* an additive checksum in place of the XOR
XorAllSum(payload) == SumUpTo(payload, Len(payload)) % 256

\* calculated_checksum: XOR of all payload bytes
XorAll(payload) ==
    XorBit(payload, 1) + 2 * XorBit(payload, 2) + 4 * XorBit(payload, 4)
        + 8 * XorBit(payload, 8) + 16 * XorBit(payload, 16) + 32 * XorBit(payload, 32)
        + 64 * XorBit(payload, 64) + 128 * XorBit(payload, 128)

\* struct.unpack('>H', b) and struct.unpack('>I', b) on slices of the right length
U16BE(b) == b[1] * 256 + b[2]
U32BE(b) == ((b[1] * 256 + b[2]) * 256 + b[3]) * 256 + b[4]

\* the inverse encodings, used to build telegrams
BytesU16(n) == <<(n \div 256) % 256, n % 256>>
BytesU32(n) == <<(n \div 16777216) % 256, (n \div 65536) % 256, (n \div 256) % 256, n % 256>>

STX == <<2, 2, 2, 2>>

\* b'LMDscandata'
ScanDataMarker == <<76, 77, 68, 115, 99, 97, 110, 100, 97, 116, 97>>

(***************************************************************************)
(* Number decoding of the binary body.                                     *)
(***************************************************************************)
\* struct.unpack('>i', b): two's complement
I32BE(b) ==
    IF b[1] < 128 THEN U32BE(b)
    ELSE (U32BE(<<b[1] - 128, b[2], b[3], b[4]>>) - 1073741824) - 1073741824

RECURSIVE Pow2(_)
Pow2(k) == IF k = 0 THEN 1 ELSE 2 * Pow2(k - 1)

RECURSIVE OddPart(_, _)
\* m * 2^k with the factors of two moved from m to k
OddPart(m, k) ==
    IF m # 0 /\ m % 2 = 0 THEN OddPart(m \div 2, k + 1) ELSE [m |-> m, k |-> k]

\* struct.unpack('>f', b): IEEE 754 binary32 as an exact fraction n/d.  The
\* exponents whose fraction does not fit the checker's integers are kept as
\* the decoded fields.
F32BE(b) ==
    LET sign == IF b[1] >= 128 THEN -1 ELSE 1
        e    == (b[1] % 128) * 2 + b[2] \div 128
        frac == ((b[2] % 128) * 256 + b[3]) * 256 + b[4]
        r    == IF e = 0 THEN OddPart(frac, -149) ELSE OddPart(8388608 + frac, e - 150)
    IN  IF e = 255 THEN [kind |-> IF frac = 0 THEN "inf" ELSE "nan", n |-> sign, d |-> 0]
        ELSE IF r.m = 0 THEN [kind |-> "num", n |-> 0, d |-> 1]
        ELSE IF r.k >= 0 /\ r.k <= 6 THEN [kind |-> "num", n |-> sign * r.m * Pow2(r.k), d |-> 1]
        ELSE IF r.k < 0 /\ r.k >= -24 /\ r.m < 128
             THEN [kind |-> "num", n |-> sign * r.m, d |-> Pow2(0 - r.k)]
        ELSE [kind |-> "f32", n |-> sign * r.m, d |-> r.k]

\* (distance_raw * scale_factor + scale_offset) / 1000.0, as a fraction of metres
Distance(distance_raw, scale_factor, scale_offset) ==
    IF scale_factor.kind = "num" /\ scale_offset.kind = "num"
    THEN [n |-> distance_raw * scale_factor.n * scale_offset.d + scale_offset.n * scale_factor.d,
          d |-> scale_factor.d * scale_offset.d * 1000]
    ELSE [n |-> distance_raw, d |-> 0]

(***************************************************************************)
(* ScanData and the binary body parser.                                    *)
(***************************************************************************)
\* LAYER_ANGLES, in 1/1000 degree
LayerAngle(layer) ==
    CASE layer = 0 -> -2500
      [] layer = 1 -> -833
      [] layer = 2 -> 833
      [] layer = 3 -> 2500

\* ScanData(...) with the dataclass defaults of the grid fields (1/10000 degree)
NewScanData(timestamp, scan_number, telegram_count, device_status, frequency) ==
    [timestamp |-> timestamp, scan_number |-> scan_number,
     telegram_count |-> telegram_count, device_status |-> device_status,
     frequency |-> frequency, points |-> <<>>,
     start_angle |-> -1375000, end_angle |-> 1375000, angular_resolution |-> 2500]

\* ScanData.get_layer_points, as the positions of the layer's points
LayerRank(points, i) == Cardinality({j \in 1..i : points[j].layer = points[i].layer})

Raise == [ok |-> FALSE, offset |-> 0, scan |-> None]

\* _parse_channel: a struct.error is raised when the 21-byte channel header is
\* short; the distance loop breaks where fewer than 2 bytes are left.
ParseChannel(data, offset, scan_data, channel_idx) ==
    IF offset + 21 > Len(data) THEN Raise
    ELSE
    LET scale_factor == F32BE(Slice(data, offset + 5, offset + 9))
        scale_offset == F32BE(Slice(data, offset + 9, offset + 13))
        start_angle  == I32BE(Slice(data, offset + 13, offset + 17))
        angular_step == U16BE(Slice(data, offset + 17, offset + 19))
        num_points   == U16BE(Slice(data, offset + 19, offset + 21))
        layer        == channel_idx % 4
        base         == offset + 21
        n            == Min(num_points, (Len(data) - base) \div 2)
        pts == [i \in 1..n |->
                  [distance |-> Distance(U16BE(Slice(data, base + 2 * (i - 1), base + 2 * i)),
                                         scale_factor, scale_offset),
                   angle_h  |-> start_angle + (i - 1) * angular_step,
                   angle_v  |-> LayerAngle(layer),
                   rssi     |-> 0,
                   layer    |-> layer]]
    IN  [ok |-> TRUE,
         offset |-> base + 2 * n,
         scan |-> [scan_data EXCEPT
                     !.start_angle = start_angle,
                     !.angular_resolution = angular_step,
                     !.end_angle = start_angle + (num_points - 1) * angular_step,
                     !.points = @ \o pts]]

\* _parse_rssi_channel: the value loop breaks at the end of the data
ParseRssiChannel(data, offset, scan_data, channel_idx) ==
    IF offset + 21 > Len(data) THEN Raise
    ELSE
    LET num_points == U16BE(Slice(data, offset + 19, offset + 21))
        layer      == channel_idx % 4
        base       == offset + 21
        n          == Min(num_points, Len(data) - base)
        pts        == scan_data.points
    IN  [ok |-> TRUE,
         offset |-> base + n,
         scan |-> [scan_data EXCEPT !.points =
                     [i \in 1..Len(pts) |->
                        IF pts[i].layer = layer /\ LayerRank(pts, i) <= n
                        THEN [pts[i] EXCEPT !.rssi = data[base + LayerRank(pts, i)]]
                        ELSE pts[i]]]]

RECURSIVE ParseChannels(_, _, _, _, _)
\* for channel_idx in range(num_16bit_channels): offset = self._parse_channel(...)
ParseChannels(data, offset, scan_data, channel_idx, num_channels) ==
    IF channel_idx >= num_channels THEN [ok |-> TRUE, offset |-> offset, scan |-> scan_data]
    ELSE LET r == ParseChannel(data, offset, scan_data, channel_idx)
         IN  IF ~r.ok THEN Raise
             ELSE ParseChannels(data, r.offset, r.scan, channel_idx + 1, num_channels)

RECURSIVE ParseRssiChannels(_, _, _, _, _)
ParseRssiChannels(data, offset, scan_data, channel_idx, num_channels) ==
    IF channel_idx >= num_channels THEN [ok |-> TRUE, offset |-> offset, scan |-> scan_data]
    ELSE LET r == ParseRssiChannel(data, offset, scan_data, channel_idx)
         IN  IF ~r.ok THEN Raise
             ELSE ParseRssiChannels(data, r.offset, r.scan, channel_idx + 1, num_channels)

\* _parse_binary_scan_data, after the 16-bit channels: the optional 8-bit
\* (RSSI) channels, read when data is left; None when an unpack raised
ParseBinaryRssi(data, r16) ==
    IF ~r16.ok THEN None
    ELSE IF r16.offset < Len(data)
    THEN IF r16.offset + 2 > Len(data) THEN None
         ELSE LET num_8bit_channels == U16BE(Slice(data, r16.offset, r16.offset + 2))
                  r8 == ParseRssiChannels(data, r16.offset + 2, r16.scan, 0,
                                          num_8bit_channels)
              IN  IF ~r8.ok THEN None ELSE r8.scan
    ELSE r16.scan

\* _parse_binary_scan_data, after the encoder blocks: the 16-bit channels
ParseBinaryChannels(data, off16, scan_data) ==
    IF off16 + 2 > Len(data) THEN None
    ELSE LET num_16bit_channels == U16BE(Slice(data, off16, off16 + 2))
         IN  ParseBinaryRssi(data, ParseChannels(data, off16 + 2, scan_data, 0,
                                                 num_16bit_channels))

\* _parse_binary_scan_data: the ScanData, or None when any unpack raised
ParseBinaryScanData(data) ==
    IF Len(data) < 32 THEN None
    ELSE
    LET device_status  == U16BE(Slice(data, 8, 10))
        telegram_count == U16BE(Slice(data, 10, 12))
        scan_number    == U16BE(Slice(data, 12, 14))
        timestamp      == U32BE(Slice(data, 14, 18))
        freq_raw       == U32BE(Slice(data, 22, 26))
        num_encoders   == U16BE(Slice(data, 30, 32))
    IN  ParseBinaryChannels(data, 32 + num_encoders * 6,
                            NewScanData(timestamp, scan_number, telegram_count,
                                        device_status, freq_raw))

\* b'LMDscandata' not in cmd
Contains(data, pat) == FindFrom(data, pat, 0) # -1

\* _parse_scan_data
ParseScanData(payload) ==
    LET space_pos == FindFrom(payload, <<32>>, 4)
    IN  IF space_pos = -1 THEN None
        ELSE IF ~Contains(Slice(payload, 0, space_pos), ScanDataMarker) THEN None
        ELSE ParseBinaryScanData(DropFirst(payload, space_pos + 1))

(***************************************************************************)
(* The framer: MRS1000Parser.feed and _try_parse_telegram.                 *)
(***************************************************************************)
\* _try_parse_telegram dropping the whole buffer on a checksum failure
TryParseTelegramDropAll(buf) ==
    LET stx_pos == FindFrom(buf, STX, 0)
    IN  IF stx_pos = -1 THEN [buffer |-> <<>>, ret |-> None, emitted |-> <<>>]
        ELSE
        LET b == DropFirst(buf, stx_pos)
        IN  IF Len(b) < 8 THEN [buffer |-> b, ret |-> None, emitted |-> <<>>]
            ELSE
            LET payload_length == U32BE(Slice(b, 4, 8))
                total_length   == 8 + payload_length + 1
            IN  IF Len(b) < total_length THEN [buffer |-> b, ret |-> None, emitted |-> <<>>]
                ELSE
                LET payload  == Slice(b, 8, 8 + payload_length)
                    checksum == b[8 + payload_length + 1]
                IN  IF XorAll(payload) # checksum
                    THEN [buffer |-> <<>>, ret |-> None, emitted |-> <<>>]
                    ELSE [buffer  |-> DropFirst(b, total_length),
                          ret     |-> ParseScanData(payload),
                          emitted |-> <<payload>>]

RECURSIVE TryParseTelegram(_)
\* One call of _try_parse_telegram on the buffer buf: the buffer it leaves, the
\* value it returns, and the payload it handed to _parse_scan_data (if any).
TryParseTelegram(buf) ==
    LET stx_pos == FindFrom(buf, STX, 0)
    IN  IF stx_pos = -1 THEN [buffer |-> <<>>, ret |-> None, emitted |-> <<>>]
        ELSE
        LET b == DropFirst(buf, stx_pos)
        IN  IF Len(b) < 8 THEN [buffer |-> b, ret |-> None, emitted |-> <<>>]
            ELSE
            LET payload_length == U32BE(Slice(b, 4, 8))
                total_length   == 8 + payload_length + 1
            IN  IF Len(b) < total_length THEN [buffer |-> b, ret |-> None, emitted |-> <<>>]
                ELSE
                LET payload  == Slice(b, 8, 8 + payload_length)
                    checksum == b[8 + payload_length + 1]
                IN  IF XorAll(payload) # checksum
                    THEN TryParseTelegram(DropFirst(b, 4))
                    ELSE [buffer  |-> DropFirst(b, total_length),
                          ret     |-> ParseScanData(payload),
                          emitted |-> <<payload>>]

RECURSIVE FeedLoop(_, _, _)
\* while True: scan = self._try_parse_telegram(); if scan is None: break
FeedLoop(buf, got, out) ==
    LET r == TryParseTelegram(buf)
    IN  IF r.ret = None
        THEN [buffer |-> r.buffer, scans |-> got, emitted |-> out \o r.emitted]
        ELSE FeedLoop(r.buffer, Append(got, r.ret), out \o r.emitted)

\* feed(data) on a parser whose buffer is buf
FeedResult(buf, data) == FeedLoop(buf \o data, <<>>, <<>>)

(***************************************************************************)
(* Telegrams the sensor may send (section 4.1 framing, section 4.2 body).  *)
(***************************************************************************)
MaxTelegrams == 2

Range(s) == {s[i] : i \in 1..Len(s)}

RECURSIVE Concat(_)
Concat(ss) == IF ss = <<>> THEN <<>> ELSE Head(ss) \o Concat(Tail(ss))

Zeros(n) == [i \in 1..n |-> 0]

\* STX, LEN, PAYLOAD, CHK
MakeTelegram(payload, chk) == STX \o BytesU32(Len(payload)) \o payload \o <<chk>>

\* b'sRA LMDscandata'
CmdScanData == <<115, 82, 65, 32, 76, 77, 68, 115, 99, 97, 110, 100, 97, 116, 97>>

\* the fixed 32-byte header of the binary body, without encoders
BodyHeader(device_status, telegram_count, scan_number, timestamp, freq_raw) ==
    Zeros(8) \o BytesU16(device_status) \o BytesU16(telegram_count)
        \o BytesU16(scan_number) \o BytesU32(timestamp) \o Zeros(4)
        \o BytesU32(freq_raw) \o Zeros(4) \o BytesU16(0)

PayloadABC == <<97, 98, 99>>
PayloadOK == <<111, 107>>
\* a scan-data payload with scan counter 7 and no channel
PayloadScan == CmdScanData \o <<32>> \o BodyHeader(0, 0, 7, 0, 0) \o BytesU16(0)

Garbage == <<170, 170, 170, 170, 170>>
TelABC == MakeTelegram(PayloadABC, 96)
TelScan == MakeTelegram(PayloadScan, 45)
\* checksum bytes that are not the XOR of the payload
TelOKFlipped == MakeTelegram(PayloadOK, 6)
TelBadTwo == MakeTelegram(<<65>>, 2)

ValidTelegrams == {TelABC, TelScan}
BadTelegrams == {TelOKFlipped, TelBadTwo}
Telegrams == ValidTelegrams \cup BadTelegrams
Prefixes == {<<>>, Garbage}

SeqsUpTo(S, n) == UNION {[1..k -> S] : k \in 0..n}

Streams == {pre \o Concat(ts) : pre \in Prefixes, ts \in SeqsUpTo(Telegrams, MaxTelegrams)}

\* the payload field of a telegram built by MakeTelegram
PayloadOf(tel) == SubSeq(tel, 9, Len(tel) - 1)

(***************************************************************************)
(* The zone evaluator (measurement_evaluator.py).  Distances, expected     *)
(* distances and tolerances are integers in millimetres; a measurement is  *)
(* a fraction [n, d] of millimetres in lowest terms with d > 0.            *)
(***************************************************************************)
\* MeasurementResult
UNKNOWN == 0
GOOD == 1
BAD == 2
NO_TARGET == 3
ERROR == 4

\* Optional[int] = None for the active product id
NoneId == -1

RECURSIVE GCD(_, _)
GCD(a, b) == IF b = 0 THEN a ELSE GCD(b, a % b)

Abs(x) == IF x < 0 THEN -x ELSE x

\* the float n / d
Frac(n, d) ==
    LET g == GCD(Abs(n), d)
    IN  [n |-> n \div g, d |-> d \div g]

\* the float NaN: a distance is one when the channel's scale factor or offset
\* is (struct.unpack('>f') of the telegram's bytes)
NaN == -999999999

\* a < b on floats: False when a side is NaN
Less(a, b) == a # NaN /\ b # NaN /\ a < b

HasNaN(distances) == \E i \in 1..Len(distances) : distances[i] = NaN

\* a measurement that is NaN
NaNMeasurement == [n |-> NaN, d |-> 1]

\* a <= b on floats: False when a side is NaN
Leq(a, b) == a.n # NaN /\ b.n # NaN /\ a.n * b.d <= b.n * a.d

RECURSIVE Sum(_)
Sum(distances) == IF distances = <<>> THEN 0 ELSE Head(distances) + Sum(Tail(distances))

RECURSIVE SumSq(_)
SumSq(distances) ==
    IF distances = <<>> THEN 0
    ELSE Head(distances) * Head(distances) + SumSq(Tail(distances))

RECURSIVE Insert(_, _)
Insert(x, sorted) ==
    IF sorted = <<>> THEN <<x>>
    ELSE IF x <= Head(sorted) THEN <<x>> \o sorted
    ELSE <<Head(sorted)>> \o Insert(x, Tail(sorted))

\* sorted(distances)
RECURSIVE Sorted(_)
Sorted(distances) ==
    IF distances = <<>> THEN <<>> ELSE Insert(Head(distances), Sorted(Tail(distances)))

\* sorted(distances) when a distance is NaN: the order is the one the
\* comparisons of list.sort produce (a list shorter than 64 is sorted by
\* reversing its first run if it descends and inserting the other elements
\* by bisection).  RunLength is the length of the first run, n elements of it
\* counted so far
RECURSIVE RunLength(_, _, _)
RunLength(a, n, descending) ==
    IF n = Len(a) THEN n
    ELSE IF Less(a[n + 1], a[n]) = descending THEN RunLength(a, n + 1, descending)
    ELSE n

\* the number of elements before the place of pivot among the first r of a
RECURSIVE Bisect(_, _, _, _)
Bisect(a, pivot, l, r) ==
    IF l >= r THEN l
    ELSE LET p == l + (r - l) \div 2
         IN  IF Less(pivot, a[p + 1]) THEN Bisect(a, pivot, l, p)
             ELSE Bisect(a, pivot, p + 1, r)

\* the first start elements of a are in order; the others are inserted
RECURSIVE BinarySort(_, _)
BinarySort(a, start) ==
    IF start >= Len(a) THEN a
    ELSE LET pivot == a[start + 1]
             l == Bisect(a, pivot, 0, start)
         IN  BinarySort(SubSeq(a, 1, l) \o <<pivot>> \o SubSeq(a, l + 1, start)
                            \o SubSeq(a, start + 2, Len(a)),
                        start + 1)

ListSort(a) ==
    IF Len(a) < 2 THEN a
    ELSE LET descending == Less(a[2], a[1])
             n_run == RunLength(a, 2, descending)
             first == IF descending THEN [i \in 1..n_run |-> a[n_run + 1 - i]]
                      ELSE SubSeq(a, 1, n_run)
         IN  BinarySort(first \o SubSeq(a, n_run + 1, Len(a)), n_run)

\* the point passes the layer, angle and distance filters of the zone
InZone(point, zone) ==
    /\ point.layer \in zone.layers
    /\ ~(point.angle_h < zone.start_angle \/ point.angle_h > zone.end_angle)
    /\ ~(\/ Less(point.distance, zone.min_valid_distance)
          \/ Less(zone.max_valid_distance, point.distance))

\* _extract_zone_points
ExtractZonePoints(scan_data, zone) ==
    LET kept == SelectSeq(scan_data.points, LAMBDA point : InZone(point, zone))
    IN  [i \in 1..Len(kept) |-> kept[i].distance]

\* mutant of _reject_outliers: the threshold is std, std_factor is not applied
RejectOutliersUnscaled(distances, std_factor) ==
    LET n == Len(distances)
        S == Sum(distances)
        V == n * SumSq(distances) - S * S
    IN  IF n < 3 THEN distances
        ELSE IF HasNaN(distances) THEN <<>>
        ELSE IF V < n * n THEN distances
        ELSE SelectSeq(distances, LAMBDA d : (n * d - S) * (n * d - S) <= V)

\* _reject_outliers: with n points of sum S and square sum Q the variance is
\* (n*Q - S*S) / n^2, so std < 0.001 m is n*Q - S*S < n^2 in millimetres, and
\* abs(d - mean) <= std_factor * std is (n*d - S)^2 <= std_factor^2 * (n*Q - S*S)
RejectOutliers(distances, std_factor) ==
    LET n == Len(distances)
        S == Sum(distances)
        V == n * SumSq(distances) - S * S
    IN  IF n < 3 THEN distances
        ELSE IF HasNaN(distances) THEN <<>>
        ELSE IF V < n * n THEN distances
        ELSE SelectSeq(distances, LAMBDA d :
                 std_factor.d * std_factor.d * (n * d - S) * (n * d - S)
                     <= std_factor.n * std_factor.n * V)

\* (distances_sorted[n//2 - 1] + distances_sorted[n//2]) / 2, or distances_sorted[n//2]
Median(distances) ==
    LET distances_sorted == IF HasNaN(distances) THEN ListSort(distances) ELSE Sorted(distances)
        n == Len(distances_sorted)
    IN  IF n % 2 = 0
        THEN IF NaN \in {distances_sorted[n \div 2], distances_sorted[n \div 2 + 1]}
             THEN NaNMeasurement
             ELSE Frac(distances_sorted[n \div 2] + distances_sorted[n \div 2 + 1], 2)
        ELSE IF distances_sorted[n \div 2 + 1] = NaN THEN NaNMeasurement
        ELSE Frac(distances_sorted[n \div 2 + 1], 1)

\* sum(distances) / len(distances)
Mean(distances) ==
    IF HasNaN(distances) THEN NaNMeasurement ELSE Frac(Sum(distances), Len(distances))

\* the exception _evaluate_zone raises on an empty list: IndexError from the
\* median, ZeroDivisionError from the mean
ZoneRaise == [raised |-> TRUE, result |-> ERROR, measurement |-> Frac(0, 1)]

ZoneReturn(r, measurement) == [raised |-> FALSE, result |-> r, measurement |-> measurement]

\* mutant of _evaluate_zone: the upper bound is exclusive
EvaluateZoneStrict(zone, distances) ==
    IF Len(distances) < zone.min_points THEN ZoneReturn(NO_TARGET, Frac(0, 1))
    ELSE LET rejecting == zone.outlier_rejection /\ Len(distances) > 3
             kept == IF rejecting THEN RejectOutliers(distances, zone.outlier_std_factor)
                     ELSE distances
         IN  IF rejecting /\ Len(kept) < zone.min_points
             THEN ZoneReturn(NO_TARGET, Frac(0, 1))
             ELSE IF kept = <<>> THEN ZoneRaise
             ELSE LET measurement == IF zone.use_median THEN Median(kept) ELSE Mean(kept)
                      upper_bound == Frac(zone.expected_distance + zone.tolerance_plus, 1)
                      lower_bound == Frac(zone.expected_distance - zone.tolerance_minus, 1)
                  IN  IF Leq(lower_bound, measurement) /\ ~Leq(upper_bound, measurement)
                      THEN ZoneReturn(GOOD, measurement)
                      ELSE ZoneReturn(BAD, measurement)

\* _evaluate_zone
EvaluateZone(zone, distances) ==
    IF Len(distances) < zone.min_points THEN ZoneReturn(NO_TARGET, Frac(0, 1))
    ELSE LET rejecting == zone.outlier_rejection /\ Len(distances) > 3
             kept == IF rejecting THEN RejectOutliers(distances, zone.outlier_std_factor)
                     ELSE distances
         IN  IF rejecting /\ Len(kept) < zone.min_points
             THEN ZoneReturn(NO_TARGET, Frac(0, 1))
             ELSE IF kept = <<>> THEN ZoneRaise
             ELSE LET measurement == IF zone.use_median THEN Median(kept) ELSE Mean(kept)
                      lower_bound == Frac(zone.expected_distance - zone.tolerance_minus, 1)
                      upper_bound == Frac(zone.expected_distance + zone.tolerance_plus, 1)
                  IN  IF Leq(lower_bound, measurement) /\ Leq(measurement, upper_bound)
                      THEN ZoneReturn(GOOD, measurement)
                      ELSE ZoneReturn(BAD, measurement)
\* mutant of the zone loop: the "if not zone.enabled: continue" is left out
RECURSIVE EvaluateZonesAll(_, _, _, _)
EvaluateZonesAll(scan_data, zones, i, all_good) ==
    IF i > Len(zones) THEN [zones |-> zones, all_good |-> all_good, raised |-> FALSE]
    ELSE LET zone_points == ExtractZonePoints(scan_data, zones[i])
             r == EvaluateZone(zones[i], zone_points)
         IN  IF r.raised
             THEN [zones |-> [zones EXCEPT ![i].point_count = Len(zone_points)],
                   all_good |-> all_good, raised |-> TRUE]
             ELSE EvaluateZonesAll(scan_data,
                      [zones EXCEPT ![i].point_count = Len(zone_points),
                                    ![i].last_result = r.result,
                                    ![i].last_measurement = r.measurement],
                      i + 1, all_good /\ r.result = GOOD)

\* the zone loop of evaluate_scan from zone i on; an exception of _evaluate_zone
\* leaves the loop with point_count of zone i already assigned
RECURSIVE EvaluateZones(_, _, _, _)
EvaluateZones(scan_data, zones, i, all_good) ==
    IF i > Len(zones) THEN [zones |-> zones, all_good |-> all_good, raised |-> FALSE]
    ELSE IF ~zones[i].enabled THEN EvaluateZones(scan_data, zones, i + 1, all_good)
    ELSE LET zone_points == ExtractZonePoints(scan_data, zones[i])
             r == EvaluateZone(zones[i], zone_points)
         IN  IF r.raised
             THEN [zones |-> [zones EXCEPT ![i].point_count = Len(zone_points)],
                   all_good |-> all_good, raised |-> TRUE]
             ELSE EvaluateZones(scan_data,
                      [zones EXCEPT ![i].point_count = Len(zone_points),
                                    ![i].last_result = r.result,
                                    ![i].last_measurement = r.measurement],
                      i + 1, all_good /\ r.result = GOOD)

\* get_active_product: the id of the product it returns, NoneId for None
GetActiveProduct ==
    IF active_product_id # NoneId /\ active_product_id \in DOMAIN products
    THEN active_product_id ELSE NoneId

(***************************************************************************)
(* The fieldbus register store: ModbusDataStore (modbus_server.py).        *)
(* A store value is [holding_registers, coils, raised]; raised is TRUE     *)
(* once an assignment has indexed past the end of a list (IndexError), and *)
(* the assignments made before it stay.                                    *)
(***************************************************************************)
STATUS_BASE == 0
ZONE_BASE == 100
ZONE_SIZE == 100
CONTROL_BASE == 900
COIL_SYSTEM_RUNNING == 0
COIL_OVERALL_GOOD == 1
COIL_OVERALL_BAD == 2
COIL_ZONE_GOOD_BASE == 10
COIL_ZONE_BAD_BASE == 30
MAX_ZONES == 16

\* [0] * 1000 and [False] * 100
NumRegisters == 1000
NumCoils == 100

NewStore ==
    [holding_registers |-> [a \in 0..(NumRegisters - 1) |-> 0],
     coils |-> [a \in 0..(NumCoils - 1) |-> FALSE],
     raised |-> FALSE]

Max0(x) == IF x < 0 THEN 0 ELSE x

\* (value >> 16) & 0xFFFF
HighWord(value) == (value \div 65536) % 65536

\* value & 0xFFFF
LowWord(value) == value % 65536

\* struct.pack('>f', a / b): a and b scaled by powers of two until b <= a < 2b;
\* each step works on values, not on the expressions that gave them
RECURSIVE F32Normalise(_, _, _)
F32Normalise(a, b, e) ==
    CHOOSE r \in
        {IF x >= 2 * y THEN F32Normalise(x, 2 * y, z + 1)
         ELSE IF x < y THEN F32Normalise(2 * x, y, z - 1)
         ELSE [a |-> x, b |-> y, e |-> z] : x \in {a}, y \in {b}, z \in {e}} : TRUE

\* the next bits of the binary expansion of r / b, appended to m
RECURSIVE F32Mantissa(_, _, _, _)
F32Mantissa(r, b, bits, m) ==
    CHOOSE q \in
        {IF bits = 0 THEN [m |-> y, r |-> x]
         ELSE IF 2 * x >= b THEN F32Mantissa(2 * x - b, b, bits - 1, 2 * y + 1)
         ELSE F32Mantissa(2 * x, b, bits - 1, 2 * y) : x \in {r}, y \in {m}} : TRUE

\* struct.pack('>f', n / d) as two 16-bit words (high, low): the nearest
\* binary32 value, ties to even; n / d is zero or in the normal range
PackF32(n, d) ==
    IF n = 0 THEN <<0, 0>>
    ELSE CHOOSE w \in
             {LET sign == IF n < 0 THEN 1 ELSE 0
                  up == 2 * q.r > nz.b \/ (2 * q.r = nz.b /\ q.m % 2 = 1)
                  carry == up /\ q.m + 1 = 8388608
                  m == IF carry THEN 0 ELSE IF up THEN q.m + 1 ELSE q.m
                  e == IF carry THEN nz.e + 1 ELSE nz.e
              IN  <<sign * 32768 + (e + 127) * 128 + m \div 65536, m % 65536>> :
              nz \in {F32Normalise(Abs(n), d, 0)},
              q \in {F32Mantissa(v.a - v.b, v.b, 23, 0) : v \in {F32Normalise(Abs(n), d, 0)}}} :
             TRUE

\* self.holding_registers[base + k] = words[k + 1] for k = 0, 1, ...: the
\* assignments up to the first address past the end of the list; the store
\* and the words are evaluated once, as the arguments of the call are
SetRegisters(store, base, words) ==
    CHOOSE r \in
        {[s EXCEPT
             !.holding_registers =
                 [a \in DOMAIN s.holding_registers |->
                     IF a >= base /\ a < base + Len(w) THEN w[a - base + 1]
                     ELSE s.holding_registers[a]],
             !.raised = base + Len(w) > NumRegisters] :
         s \in {store}, w \in {words}} : TRUE

\* self.coils[address] = value
SetCoil(store, address, value) ==
    CHOOSE r \in
        {IF s.raised THEN s
         ELSE IF address >= NumCoils THEN [s EXCEPT !.raised = TRUE]
         ELSE [s EXCEPT !.coils[address] = value] : s \in {store}} : TRUE

\* _update_zone_registers; distances are millimetres, registers hold metres
UpdateZoneRegisters(store, zone_index, z) ==
    LET base == ZONE_BASE + zone_index * ZONE_SIZE
        words == <<z.id, IF z.enabled THEN 1 ELSE 0, z.last_result,
                   IF z.last_result = 1 THEN 1 ELSE 0>>
                 \o PackF32(z.last_measurement.n, z.last_measurement.d * 1000)
                 \o PackF32(z.expected_distance, 1000)
                 \o PackF32(z.tolerance_plus, 1000)
                 \o PackF32(z.tolerance_minus, 1000)
                 \o <<HighWord(z.point_count), LowWord(z.point_count)>>
    IN  SetCoil(SetCoil(SetRegisters(store, base, words),
                        COIL_ZONE_GOOD_BASE + zone_index, z.last_result = 1),
                COIL_ZONE_BAD_BASE + zone_index, z.last_result = 2)

\* _clear_zone_registers
ClearZoneRegisters(store, zone_index) ==
    LET base == ZONE_BASE + zone_index * ZONE_SIZE
    IN  SetCoil(SetCoil(SetRegisters(store, base, [k \in 1..14 |-> 0]),
                        COIL_ZONE_GOOD_BASE + zone_index, FALSE),
                COIL_ZONE_BAD_BASE + zone_index, FALSE)

\* for i, zone in enumerate(product.zones[:self.MAX_ZONES]), from index i on
RECURSIVE UpdateZones(_, _, _)
UpdateZones(store, zones, i) ==
    CHOOSE r \in
        {IF s.raised \/ i >= Len(zones) \/ i >= MAX_ZONES THEN s
         ELSE UpdateZones(UpdateZoneRegisters(s, i, zones[i + 1]), zones, i + 1) :
         s \in {store}} : TRUE

\* for i in range(len(product.zones), self.MAX_ZONES), from index i on
RECURSIVE ClearZones(_, _)
ClearZones(store, i) ==
    CHOOSE r \in
        {IF s.raised \/ i >= MAX_ZONES THEN s
         ELSE ClearZones(ClearZoneRegisters(s, i), i + 1) : s \in {store}} : TRUE

\* update_from_product(product, stats) with a product (never None here)
UpdateFromProduct(store, product, stats) ==
    LET status == <<1, product.id, product.last_result, Len(product.zones),
                    HighWord(stats.evaluation_count), LowWord(stats.evaluation_count),
                    HighWord(stats.good_count), LowWord(stats.good_count),
                    HighWord(stats.bad_count), LowWord(stats.bad_count)>>
        s1 == SetRegisters([store EXCEPT !.raised = FALSE], STATUS_BASE, status)
        s2 == SetCoil(s1, COIL_SYSTEM_RUNNING, TRUE)
        s3 == SetCoil(s2, COIL_OVERALL_GOOD, product.last_result = 1)
        s4 == SetCoil(s3, COIL_OVERALL_BAD, product.last_result = 2)
    IN  ClearZones(UpdateZones(s4, product.zones, 0), Len(product.zones))

(***************************************************************************)
(* Result callbacks: _notify_results calls every registered callback with  *)
(* the product and logs an exception a callback raises.  A callback is     *)
(* modelled by its kind: "ok" returns, "raise" raises an Exception, and    *)
(* "publish" is the application's _on_measurement_result, which hands the  *)
(* product and get_statistics() to the register store.                     *)
(***************************************************************************)
\* what the callbacks have done so far: the calls made, and the store
Notification(calls_made, store) == [calls |-> calls_made, store |-> store]

\* callback(product) for the callback at position i
CallCallback(n, i, product, stats) ==
    LET kind == callbacks[i]
        store == IF kind = "publish" THEN UpdateFromProduct(n.store, product, stats)
                 ELSE n.store
        raised == kind = "raise" \/ (kind = "publish" /\ store.raised)
    IN  Notification(Append(n.calls, [callback |-> i, product |-> product.id,
                                      raised |-> raised]),
                     store)

\* mutant of _notify_results: the first exception ends the loop
RECURSIVE NotifyResultsUnguarded(_, _, _, _)
NotifyResultsUnguarded(n, i, product, stats) ==
    IF i > Len(callbacks) THEN n
    ELSE LET n1 == CallCallback(n, i, product, stats)
         IN  IF n1.calls[Len(n1.calls)].raised THEN n1
             ELSE NotifyResultsUnguarded(n1, i + 1, product, stats)

\* _notify_results from the callback at position i on
RECURSIVE NotifyResults(_, _, _, _)
NotifyResults(n, i, product, stats) ==
    IF i > Len(callbacks) THEN n
    ELSE NotifyResults(CallCallback(n, i, product, stats), i + 1, product, stats)

\* the register store as the fieldbus server holds it
Store == [holding_registers |-> holding_registers, coils |-> coils, raised |-> FALSE]

\* get_statistics(), the three counters
Statistics(e, g, b) == [evaluation_count |-> e, good_count |-> g, bad_count |-> b]

NoCall == [op |-> "none", scan_data |-> None, product |-> NoneId, ret |-> "none",
           evaluation_count |-> 0, good_count |-> 0, bad_count |-> 0]

\* the evaluator as constructed without a configuration
EvalIdle ==
    /\ products = <<>>
    /\ active_product_id = NoneId
    /\ evaluation_count = 0 /\ good_count = 0 /\ bad_count = 0
    /\ last = NoCall
    /\ callbacks = <<>>
    /\ notified = <<>>
    /\ key_order = <<>>

ThreadsIdle ==
    /\ pc = [t \in {"loop", "client"} |-> "idle"]
    /\ lock = "free"
    /\ store_lock = "free"
    /\ local = [scan_data |-> None, product |-> NoneId, all_good |-> TRUE, tmp |-> 0]

(***************************************************************************)
(* The framer fed with a stream cut into arbitrary chunks.                 *)
(***************************************************************************)
Pending == [pending |-> TRUE]

\* MRS1000Receiver.__init__: an empty queue and zeroed statistics
ReceiverIdle ==
    /\ data_queue = <<>>
    /\ packets_received = 0
    /\ scans_parsed = 0
    /\ errors = 0
    /\ delivered = <<>>
    /\ taken = <<>>
    /\ sensor_ip = ""
    /\ inbound = <<>>
    /\ bytes_received = 0

\* no request has been received
NoRequestYet == [kind |-> "none", data |-> <<>>, response |-> None]

\* no EtherNet/IP server has been constructed
EipAbsent ==
    /\ eip_server = None
    /\ eip_clock = 0
    /\ eip_io = NoRequestYet
    /\ eip_outputs = <<>>

\* no _broadcast_scan is running (round: how many have been started)
NoFanout(round) ==
    [state |-> "idle", round |-> round, size |-> 0, start |-> {}, pending |-> {},
     dead |-> {}, received |-> {}, raised |-> FALSE]

\* the application without a dashboard client
WsIdle ==
    /\ ws_clients = {}
    /\ fanout = NoFanout(0)
    /\ ws_stats = [ws_messages_sent |-> 0, scans_sent |-> 0]
    /\ ws_closed = {}

IoIdle == ReceiverIdle /\ EipAbsent /\ WsIdle

FramerIdle ==
    /\ stream = <<>> /\ pos = 0 /\ buffer = <<>> /\ emitted = <<>>
    /\ scans = <<>> /\ calls = 0 /\ scan_count = 0

ParserIdle == params = None /\ telegram = <<>> /\ result = Pending

NoRequest == [fc |-> 0, address |-> 0, value |-> 0, response |-> <<>>]

\* no fieldbus server: the application runs with enable_modbus off
StoreAbsent == holding_registers = <<>> /\ coils = <<>> /\ request = NoRequest

\* no configuration file
DocumentAbsent == document = None

ZoneIdle == zone_in = None /\ distances_in = <<>> /\ outcome = Pending

InitFramer ==
    /\ IoIdle
    /\ ParserIdle
    /\ EvalIdle
    /\ ThreadsIdle
    /\ DocumentAbsent
    /\ StoreAbsent
    /\ ZoneIdle
    /\ stream \in Streams
    /\ pos = 0
    /\ buffer = <<>>
    /\ emitted = <<>>
    /\ scans = <<>>
    /\ calls = 0
    /\ scan_count = 0

\* scans = self.parser.feed(data), data being the next k bytes of the stream
Feed(k) ==
    /\ pos + k <= Len(stream)
    /\ \E r \in {FeedResult(buffer, SubSeq(stream, pos + 1, pos + k))} :
           /\ buffer' = r.buffer
           /\ emitted' = emitted \o r.emitted
           /\ scans' = scans \o r.scans
           /\ scan_count' = scan_count + Len(r.scans)
    /\ pos' = pos + k
    /\ calls' = IF calls < 3 THEN calls + 1 ELSE calls
    /\ UNCHANGED <<stream, parserVars, evalVars, threadVars, appVars, ioVars>>

NextFramer == \E k \in 1..(Len(stream) - pos) : Feed(k)

SpecFramer == InitFramer /\ [][NextFramer]_vars

\* feed() of the whole stream in one call on an empty buffer
Whole == FeedResult(<<>>, stream)
AllFed == pos = Len(stream)
OneFeed == AllFed /\ calls = 1

(***************************************************************************)
(* C1  Stream-boundary independence: however the stream is cut into        *)
(* chunks, the payloads and the scans emitted over all feed() calls are    *)
(* among those a single feed() of the whole stream emits.                  *)
(* The code violates it: a feed() call stops at the first telegram that    *)
(* yields no scan, so later calls emit what the single call left behind.   *)
(***************************************************************************)
C1_BoundaryIndependence ==
    AllFed => /\ Range(emitted) \subseteq Range(Whole.emitted)
              /\ Range(scans) \subseteq Range(Whole.scans)

ResyncClean(bad, good) ==
    FindFrom(DropFirst(bad, 4) \o good, STX, 0) = Len(bad) - 4

StartsWith(s, p) == Len(s) >= Len(p) /\ SubSeq(s, 1, Len(p)) = p

C3_SplitTolerance ==
    (stream = TelScan /\ AllFed /\ calls = 2) => scans = Whole.scans

(***************************************************************************)
(* C4  Coalesced-packet tolerance: one feed() of several valid telegrams   *)
(* extracts all of them in that call: every payload is handed on, every    *)
(* scan is returned, nothing is left in the buffer.                        *)
(* The code violates it: the loop of feed() ends at the first telegram     *)
(* that is not scan data.                                                  *)
(***************************************************************************)
C4_Coalesced ==
    \A ts \in SeqsUpTo(ValidTelegrams, MaxTelegrams) :
        (OneFeed /\ stream = Concat(ts))
            => /\ buffer = <<>>
               /\ emitted = [i \in 1..Len(ts) |-> PayloadOf(ts[i])]
               /\ Len(scans) = Cardinality({i \in 1..Len(ts) : ts[i] = TelScan})

(***************************************************************************)
(* C5  Scenario S1 as claimed: garbage, "abc" with checksum 0x60, "ok"     *)
(* with checksum 0x06, fed at once, emits "abc" and then "ok".             *)
(***************************************************************************)
S1Stream == Garbage \o MakeTelegram(PayloadABC, 96) \o MakeTelegram(PayloadOK, 6)

C5_S1TwoEmissions ==
    (OneFeed /\ stream = S1Stream) => emitted = <<PayloadABC, PayloadOK>>

\* C5 as amended: the stream of S1 makes the framer emit exactly one payload,
\* "abc"; the second telegram is not emitted, 0x06 not being the XOR of "ok".
C5_S1OneEmission ==
    (OneFeed /\ stream = S1Stream) => (emitted = <<PayloadABC>> /\ scans = <<>>)

C5_Witness == OneFeed /\ stream = S1Stream /\ emitted = <<PayloadABC>>

(***************************************************************************)
(* The parser applied to one scan-data payload.                            *)
(***************************************************************************)
MaxChannels == 5
MaxPoints == 2
MaxTrunc == 3

\* the encoding struct.unpack('>i', ...) decodes
BytesI32(n) ==
    IF n >= 0 THEN BytesU32(n)
    ELSE LET m == (0 - n) - 1
         IN  <<255 - ((m \div 16777216) % 256), 255 - ((m \div 65536) % 256),
               255 - ((m \div 256) % 256), 255 - (m % 256)>>

\* channel header: content type "DIST1", scale factor 1.0, scale offset 0.0,
\* start angle, angular step, number of points
ChannelHeader(start, step, np) ==
    <<68, 73, 83, 84, 49>> \o <<63, 128, 0, 0>> \o Zeros(4)
        \o BytesI32(start) \o BytesU16(step) \o BytesU16(np)

\* a 16-bit channel whose i-th raw distance is 1000 + i
Channel16(start, step, np) ==
    ChannelHeader(start, step, np) \o Concat([i \in 1..np |-> BytesU16(1000 + i)])

\* an 8-bit channel whose i-th value is 100 + i
Channel8(start, step, np) ==
    ChannelHeader(start, step, np) \o [i \in 1..np |-> 100 + i]

\* The body the sensor sends for the parameters q: q.nc 16-bit channels of
\* q.np points (the channels after the first start q.skew later), the 8-bit
\* section if q.rssi, and the last q.trunc bytes missing.
FullBody(q) ==
    BodyHeader(1, 2, 3, 4, 1500) \o BytesU16(q.nc)
        \o Concat([c \in 1..q.nc |->
                     Channel16(q.start + (IF c > 1 THEN q.skew ELSE 0), q.step, q.np)])
        \o (IF q.rssi
            THEN BytesU16(q.nc) \o Concat([c \in 1..q.nc |-> Channel8(q.start, q.step, q.np)])
            ELSE <<>>)

Body(q) == SubSeq(FullBody(q), 1, Len(FullBody(q)) - q.trunc)

ParamSet ==
    [nc : 0..MaxChannels, np : 0..MaxPoints, start : {-450000, 0}, step : {2500},
     skew : {0, 10000}, rssi : BOOLEAN, trunc : 0..MaxTrunc]

InitParser ==
    /\ FramerIdle
    /\ IoIdle
    /\ EvalIdle
    /\ ThreadsIdle
    /\ DocumentAbsent
    /\ StoreAbsent
    /\ ZoneIdle
    /\ params \in ParamSet
    /\ telegram = CmdScanData \o <<32>> \o Body(params)
    /\ result = Pending

\* return self._parse_scan_data(payload)
Parse ==
    /\ result = Pending
    /\ result' = ParseScanData(telegram)
    /\ scan_count' = IF result' = None THEN scan_count ELSE scan_count + 1
    /\ UNCHANGED <<params, telegram, stream, pos, buffer, emitted, scans, calls,
                   ioVars, evalVars, threadVars, appVars>>

NextParser == Parse

SpecParser == InitParser /\ [][NextParser]_vars

IsScan(r) == r # Pending /\ r # None

\* the points of one layer, in the order of the scan
LayerPoints(r, layer) == SelectSeq(r.points, LAMBDA pt : pt.layer = layer)

(***************************************************************************)
(* C6  Scan grid invariant: in every Scan the parser returns, each layer   *)
(* that has a channel holds exactly N_p points, point i at angle           *)
(* start + i * step (channels agreeing on the grid).                       *)
(* The code violates it: a payload cut inside the distance array yields a  *)
(* Scan with fewer points, and a fifth channel is appended to layer 0.     *)
(***************************************************************************)
C6_ScanGrid ==
    (IsScan(result) /\ params.skew = 0)
        => \A layer \in 0..3 :
              layer < params.nc
                  => /\ Len(LayerPoints(result, layer)) = params.np
                     /\ \A i \in 1..Len(LayerPoints(result, layer)) :
                           LayerPoints(result, layer)[i].angle_h
                               = params.start + (i - 1) * params.step

(***************************************************************************)
(* The evaluator called from one thread: evaluate_scan for every scan,     *)
(* reset_statistics and set_active_product in between.                     *)
(***************************************************************************)
MaxSame == 3
MaxEvals == 2

\* MeasurementZone with the dataclass defaults for the fields not listed
MeasurementZone(id, start_angle, end_angle, expected_distance, tolerance_plus, tolerance_minus, min_points, use_median, outlier_rejection, outlier_std_factor) ==
    [id |-> id, enabled |-> TRUE, start_angle |-> start_angle, end_angle |-> end_angle,
     layers |-> {0, 1, 2, 3}, expected_distance |-> expected_distance,
     tolerance_plus |-> tolerance_plus, tolerance_minus |-> tolerance_minus,
     min_valid_distance |-> 100, max_valid_distance |-> 10000,
     min_points |-> min_points, use_median |-> use_median,
     outlier_rejection |-> outlier_rejection, outlier_std_factor |-> outlier_std_factor,
     last_measurement |-> Frac(0, 1), last_result |-> UNKNOWN, point_count |-> 0]

ProductConfig(id, zones) ==
    [id |-> id, enabled |-> TRUE, zones |-> zones, last_result |-> UNKNOWN]

\* a product with enabled = False
Disabled(product) == [product EXCEPT !.enabled = FALSE]

\* zone 1: -10..10 degrees, expected 1.000 m +0.050 -0.030, at least 2 points,
\* outlier_std_factor 1.5
ZoneA(use_median, outlier_rejection) ==
    MeasurementZone(1, -100000, 100000, 1000, 50, 30, 2, use_median, outlier_rejection,
                    [n |-> 3, d |-> 2])

\* zone 2: 15..25 degrees, expected 2.000 m +-0.050, median, no outlier rejection
ZoneB(min_points) ==
    MeasurementZone(2, 150000, 250000, 2000, 50, 50, min_points, TRUE, FALSE,
                    [n |-> 2, d |-> 1])

\* product 1 with zones 1 and 2, product 2 without zones, product 3 disabled
Catalogs ==
    {(1 :> ProductConfig(1, <<ZoneA(um, orj), ZoneB(mb)>>))
       @@ (2 :> ProductConfig(2, <<>>))
       @@ (3 :> Disabled(ProductConfig(3, <<ZoneB(1)>>))) :
        um \in BOOLEAN, orj \in BOOLEAN, mb \in {0, 1}}

Point(layer, angle_h, distance) == [layer |-> layer, angle_h |-> angle_h, distance |-> distance]

\* distances of the points in zone 1: the upper bound, just above it, the lower bound
NearDistances == {1050, 1051, 970}

\* a scan: optionally a far point in zone 1, then up to MaxSame points at the
\* same distance in zone 1, then optionally a point in zone 2
Scans ==
    {[points |-> (IF far THEN <<Point(0, 0, 5000)>> ELSE <<>>)
                 \o [i \in 1..k |-> Point(0, 0, d)]
                 \o (IF other THEN <<Point(1, 200000, 2000)>> ELSE <<>>)] :
        far \in BOOLEAN, k \in 0..MaxSame, d \in NearDistances, other \in BOOLEAN}

\* the ids callers pass: 4 is not in the catalog
ProductIds == 1..4

\* the callbacks registered with add_result_callback, in registration order
CallbackLists == {<<"raise", "ok">>}

\* the evaluator as constructed from a configuration file: the file's
\* active_product_id is taken as it is (null, or an id the file has no
\* product for, included)
EvalLoaded(active_ids, callback_lists) ==
    /\ FramerIdle
    /\ IoIdle
    /\ ParserIdle
    /\ ThreadsIdle
    /\ DocumentAbsent
    /\ StoreAbsent
    /\ ZoneIdle
    /\ products \in Catalogs
    /\ active_product_id \in active_ids
    /\ evaluation_count = 0 /\ good_count = 0 /\ bad_count = 0
    /\ last = NoCall
    /\ callbacks \in callback_lists
    /\ notified = <<>>
    /\ key_order = <<1, 2, 3>>

InitEval == EvalLoaded({1, NoneId, 4}, CallbackLists)

Call(op, scan_data, product, ret) ==
    [op |-> op, scan_data |-> scan_data, product |-> product, ret |-> ret,
     evaluation_count |-> evaluation_count, good_count |-> good_count,
     bad_count |-> bad_count]

\* mutant of the test at the head of evaluate_scan: enabled is not looked at
NoProductOnly(product) == product = NoneId

\* if not product or not product.enabled: return None
NoProductOrDisabled(product) == product = NoneId \/ ~products[product].enabled

\* self._notify_results(product) with the counters as they are after the
\* evaluation; the callbacks leave their calls and the register store
Notify(product, stats) ==
    \E n \in {NotifyResults(Notification(<<>>, Store), 1, product, stats)} :
        /\ notified' = n.calls
        /\ holding_registers' = n.store.holding_registers
        /\ coils' = n.store.coils

\* evaluate_scan(scan_data)
EvaluateScan(scan_data) ==
    /\ evaluation_count < MaxEvals
    /\ \E product \in {GetActiveProduct} :
           IF NoProductOrDisabled(product)
           THEN /\ last' = Call("evaluate_scan", None, NoneId, "none")
                /\ notified' = <<>>
                /\ UNCHANGED <<products, counterVars, holding_registers, coils>>
           ELSE \E r \in {EvaluateZones(scan_data, products[product].zones, 1, TRUE)} :
                    IF r.raised
                    THEN /\ products' = [products EXCEPT ![product].zones = r.zones]
                         /\ last' = Call("evaluate_scan", scan_data, product, "raised")
                         /\ notified' = <<>>
                         /\ UNCHANGED <<counterVars, holding_registers, coils>>
                    ELSE /\ products' = [products EXCEPT
                                 ![product].zones = r.zones,
                                 ![product].last_result = IF r.all_good THEN GOOD ELSE BAD]
                         /\ evaluation_count' = evaluation_count + 1
                         /\ good_count' = IF r.all_good THEN good_count + 1 ELSE good_count
                         /\ bad_count' = IF r.all_good THEN bad_count ELSE bad_count + 1
                         /\ last' = Call("evaluate_scan", scan_data, product, "product")
                         /\ Notify(products'[product],
                                   Statistics(evaluation_count', good_count', bad_count'))
    /\ UNCHANGED <<active_product_id, framerVars, ioVars, parserVars, threadVars,
                   callbacks, persistVars, request, zoneVars>>

\* mutant of reset_statistics: bad_count is not reset
ResetStatisticsKeepBad ==
    /\ evaluation_count' = 0
    /\ good_count' = 0
    /\ bad_count' = bad_count
    /\ last' = Call("reset_statistics", None, NoneId, "none")
    /\ UNCHANGED <<products, active_product_id, framerVars, ioVars, parserVars, threadVars, appVars>>

\* the body of reset_statistics
ResetCounters ==
    /\ evaluation_count' = 0
    /\ good_count' = 0
    /\ bad_count' = 0
    /\ last' = Call("reset_statistics", None, NoneId, "none")

\* reset_statistics()
ResetStatistics ==
    /\ ResetCounters
    /\ UNCHANGED <<products, active_product_id, framerVars, ioVars, parserVars, threadVars, appVars>>

\* mutant of the body of set_active_product: the id is not looked up
ActivateAny(product_id) ==
    /\ active_product_id' = product_id
    /\ last' = Call("set_active_product", None, product_id, "true")

\* the body of set_active_product
Activate(product_id) ==
    IF product_id \in DOMAIN products
    THEN /\ active_product_id' = product_id
         /\ last' = Call("set_active_product", None, product_id, "true")
    ELSE /\ active_product_id' = active_product_id
         /\ last' = Call("set_active_product", None, product_id, "false")

\* set_active_product(product_id)
SetActiveProduct(product_id) ==
    /\ Activate(product_id)
    /\ UNCHANGED <<products, counterVars, framerVars, ioVars, parserVars, threadVars, appVars>>

NextEval ==
    \/ \E scan_data \in Scans : EvaluateScan(scan_data)
    \/ ResetStatistics
    \/ \E product_id \in ProductIds : SetActiveProduct(product_id)

SpecEval == InitEval /\ [][NextEval]_vars

\* the last call was an evaluate_scan that found an active enabled product
Evaluated == last.op = "evaluate_scan" /\ last.product # NoneId

\* ... and returned it
Returned == Evaluated /\ last.ret = "product"

\* the points of the evaluated scan that survive the filters and the outlier
\* rejection of the zone
Surviving(zone) ==
    LET distances == ExtractZonePoints(last.scan_data, zone)
    IN  IF zone.outlier_rejection /\ Len(distances) > 3
        THEN RejectOutliers(distances, zone.outlier_std_factor)
        ELSE distances

Statistic(zone) == IF zone.use_median THEN Median(Surviving(zone)) ELSE Mean(Surviving(zone))

EvaluatedZones ==
    {products[last.product].zones[i] : i \in 1..Len(products[last.product].zones)}

C8_AggregateVerdict ==
    Evaluated =>
        LET product == products[last.product]
            allGood == \A zone \in EvaluatedZones : zone.enabled => zone.last_result = GOOD
            noTarget == \E zone \in EvaluatedZones : zone.enabled /\ zone.last_result = NO_TARGET
        IN  /\ product.last_result = IF allGood THEN GOOD ELSE BAD
            /\ noTarget => product.last_result = BAD /\ bad_count = last.bad_count + 1

ThreadScans ==
    {[points |-> <<Point(0, 0, d), Point(0, 0, d), Point(1, 200000, 2000)>>] : d \in {1050, 1051}}

Goto(thread, label) == pc' = [pc EXCEPT ![thread] = label]

\* evaluate_scan: product = self.get_active_product(); return None without one
EvalCall(scan_data) ==
    /\ pc["loop"] = "idle"
    /\ evaluation_count < MaxEvals /\ good_count < MaxEvals /\ bad_count < MaxEvals
    /\ \E product \in {GetActiveProduct} :
           IF NoProductOrDisabled(product)
           THEN UNCHANGED <<pc, local>>
           ELSE /\ Goto("loop", "lock")
                /\ local' = [scan_data |-> scan_data, product |-> product,
                             all_good |-> TRUE, tmp |-> 0]
    /\ UNCHANGED <<lock, store_lock, evalVars, framerVars, ioVars, parserVars, appVars>>

\* with self._lock: the zone loop and product.last_result; an exception of
\* _evaluate_zone releases the lock and leaves evaluate_scan
EvalLocked ==
    /\ pc["loop"] = "lock"
    /\ lock = "free"
    /\ \E r \in {EvaluateZones(local.scan_data, products[local.product].zones, 1, TRUE)} :
           IF r.raised
           THEN /\ products' = [products EXCEPT ![local.product].zones = r.zones]
                /\ Goto("loop", "idle")
                /\ UNCHANGED <<lock, store_lock, local>>
           ELSE /\ products' = [products EXCEPT
                        ![local.product].zones = r.zones,
                        ![local.product].last_result = IF r.all_good THEN GOOD ELSE BAD]
                /\ lock' = "loop" /\ UNCHANGED store_lock
                /\ local' = [local EXCEPT !.all_good = r.all_good]
                /\ Goto("loop", "count_load")
    /\ UNCHANGED <<active_product_id, counterVars, last, framerVars, ioVars, parserVars, appVars>>

\* self.evaluation_count += 1, the load
EvalCountLoad ==
    /\ pc["loop"] = "count_load"
    /\ local' = [local EXCEPT !.tmp = evaluation_count]
    /\ Goto("loop", "count_store")
    /\ UNCHANGED <<lock, store_lock, evalVars, framerVars, ioVars, parserVars, appVars>>

\* self.evaluation_count += 1, the store
EvalCountStore ==
    /\ pc["loop"] = "count_store"
    /\ evaluation_count' = local.tmp + 1
    /\ Goto("loop", "verdict_load")
    /\ UNCHANGED <<good_count, bad_count, products, active_product_id, last,
                   lock, store_lock, local, framerVars, ioVars, parserVars, appVars>>

\* self.good_count += 1 or self.bad_count += 1, the load
EvalVerdictLoad ==
    /\ pc["loop"] = "verdict_load"
    /\ local' = [local EXCEPT !.tmp = IF local.all_good THEN good_count ELSE bad_count]
    /\ Goto("loop", "verdict_store")
    /\ UNCHANGED <<lock, store_lock, evalVars, framerVars, ioVars, parserVars, appVars>>

\* self.good_count += 1 or self.bad_count += 1, the store; the with block ends
EvalVerdictStore ==
    /\ pc["loop"] = "verdict_store"
    /\ good_count' = IF local.all_good THEN local.tmp + 1 ELSE good_count
    /\ bad_count' = IF local.all_good THEN bad_count ELSE local.tmp + 1
    /\ lock' = "free" /\ UNCHANGED store_lock
    /\ Goto("loop", "notify")
    /\ UNCHANGED <<evaluation_count, products, active_product_id, last, local,
                   framerVars, ioVars, parserVars, appVars>>

\* self._notify_results(product); return product
EvalNotify ==
    /\ pc["loop"] = "notify"
    /\ Notify(products[local.product],
              Statistics(evaluation_count, good_count, bad_count))
    /\ Goto("loop", "idle")
    /\ UNCHANGED <<lock, store_lock, local, evalVars, framerVars, ioVars, parserVars,
                   callbacks, persistVars, request, zoneVars>>

\* reset_statistics: self.evaluation_count = 0
ResetEvaluationCount ==
    /\ pc["client"] = "idle"
    /\ evaluation_count' = 0
    /\ Goto("client", "reset_good")
    /\ UNCHANGED <<good_count, bad_count, products, active_product_id, last,
                   lock, store_lock, local, framerVars, ioVars, parserVars, appVars>>

\* reset_statistics: self.good_count = 0
ResetGoodCount ==
    /\ pc["client"] = "reset_good"
    /\ good_count' = 0
    /\ Goto("client", "reset_bad")
    /\ UNCHANGED <<evaluation_count, bad_count, products, active_product_id, last,
                   lock, store_lock, local, framerVars, ioVars, parserVars, appVars>>

\* reset_statistics: self.bad_count = 0
ResetBadCount ==
    /\ pc["client"] = "reset_bad"
    /\ bad_count' = 0
    /\ Goto("client", "idle")
    /\ UNCHANGED <<evaluation_count, good_count, products, active_product_id, last,
                   lock, store_lock, local, framerVars, ioVars, parserVars, appVars>>

\* set_active_product(product_id) on the client thread
ClientSetActiveProduct(product_id) ==
    /\ pc["client"] = "idle"
    /\ SetActiveProduct(product_id)

NextThreads ==
    \/ \E scan_data \in ThreadScans : EvalCall(scan_data)
    \/ EvalLocked
    \/ EvalCountLoad
    \/ EvalCountStore
    \/ EvalVerdictLoad
    \/ EvalVerdictStore
    \/ EvalNotify
    \/ ResetEvaluationCount
    \/ ResetGoodCount
    \/ ResetBadCount
    \/ \E product_id \in ProductIds : ClientSetActiveProduct(product_id)

\* the application as started with product 1 active and one callback
InitThreads == EvalLoaded({1}, {<<"ok">>})

SpecThreads == InitThreads /\ [][NextThreads]_vars

\* no call is in progress on either thread
Quiescent == pc["loop"] = "idle" /\ pc["client"] = "idle"

(***************************************************************************)
(* C10: the evaluator's mutex makes the operations on the counters         *)
(* mutually exclusive, so whenever no call is in progress on the event     *)
(* loop or on the client thread good_count + bad_count = evaluation_count. *)
(* The code violates it: reset_statistics and set_active_product do not    *)
(* take the lock, and a reset that runs between the counter updates of     *)
(* evaluate_scan leaves the counters apart.                                *)
(***************************************************************************)
C10_CountersGuarded == Quiescent => good_count + bad_count = evaluation_count

(***************************************************************************)
(* C11: evaluate_scan returns None when there is no active product, when   *)
(* the active id is not in the catalog, or when the active product is      *)
(* disabled; then no result callback is invoked, the three counters are    *)
(* unchanged and no zone or product result is modified.                    *)
(***************************************************************************)
C11_NoProductNoEffect ==
    [][(/\ last'.op = "evaluate_scan"
        /\ \/ active_product_id = NoneId
           \/ active_product_id \notin DOMAIN products
           \/ ~products[active_product_id].enabled)
       => /\ last'.ret = "none"
          /\ notified' = <<>>
          /\ UNCHANGED <<products, counterVars>>]_vars

\* an evaluate with the disabled product 3 active returned None, after an
\* evaluation of product 1 had counted
C11_Witness ==
    /\ last.op = "evaluate_scan" /\ last.ret = "none"
    /\ active_product_id = 3 /\ ~products[3].enabled
    /\ evaluation_count = 1 /\ last.evaluation_count = 1
    /\ callbacks # <<>> /\ notified = <<>>

(***************************************************************************)
(* C12: callback isolation.  After every evaluate that returns the product *)
(* each registered callback has been invoked exactly once, in registration *)
(* order, with the evaluated product; a callback that raises does not keep *)
(* the callbacks after it from being invoked, and the counters are those   *)
(* of an evaluation (one more evaluation, one more good or bad).           *)
(***************************************************************************)
C12_CallbackIsolation ==
    Returned =>
        /\ Len(notified) = Len(callbacks)
        /\ \A i \in 1..Len(notified) :
               /\ notified[i].callback = i
               /\ notified[i].product = last.product
               /\ notified[i].raised = (callbacks[i] = "raise")
        /\ evaluation_count = last.evaluation_count + 1
        /\ good_count + bad_count = last.good_count + last.bad_count + 1

\* the first callback raised and the second was invoked all the same
C12_Witness ==
    /\ Returned
    /\ Len(notified) = 2
    /\ notified[1].raised /\ ~notified[2].raised
    /\ notified[2].callback = 2

(***************************************************************************)
(* The catalog and its configuration file: add_product, remove_product and *)
(* set_active_product on an evaluator with a config_path, and the          *)
(* construction of a new evaluator from the same path.                     *)
(***************************************************************************)
\* MeasurementZone.from_dict: the configuration fields of the dictionary,
\* the result fields at their defaults
ZoneFromDict(data) ==
    [data EXCEPT !.last_measurement = Frac(0, 1), !.last_result = UNKNOWN, !.point_count = 0]

\* ProductConfig.from_dict
ProductFromDict(data) ==
    [id |-> data.id, enabled |-> data.enabled,
     zones |-> [i \in 1..Len(data.zones) |-> ZoneFromDict(data.zones[i])],
     last_result |-> UNKNOWN]

\* ProductConfig.to_dict: the fields of the product and of its zones
ProductToDict(product) ==
    [id |-> product.id, enabled |-> product.enabled,
     zones |-> product.zones, last_result |-> product.last_result]

\* the document save_config writes: the active id and the products in the
\* order of the dictionary
SavedDocument(active, prods, order) ==
    [active_product_id |-> active,
     products |-> [i \in 1..Len(order) |-> ProductToDict(prods[order[i]])]]

\* load_config: self.products[product.id] = product for every entry
LoadedProducts(doc) ==
    [id \in {doc.products[i].id : i \in 1..Len(doc.products)} |->
        ProductFromDict(doc.products[
            CHOOSE i \in 1..Len(doc.products) :
                /\ doc.products[i].id = id
                /\ \A j \in (i + 1)..Len(doc.products) : doc.products[j].id # id])]

\* the keys in the order load_config inserts them
RECURSIVE LoadedKeys(_, _)
LoadedKeys(entries, order) ==
    IF entries = <<>> THEN order
    ELSE LoadedKeys(Tail(entries),
                    IF \E i \in 1..Len(order) : order[i] = Head(entries).id
                    THEN order ELSE Append(order, Head(entries).id))

\* the products the callers add: two ids, each with and without a zone
ProductInputs == {ProductConfig(id, zones) : id \in 1..2, zones \in {<<>>, <<ZoneB(1)>>}}

\* MeasurementEvaluator(config_path) where no file exists yet
InitCatalog ==
    /\ FramerIdle
    /\ IoIdle
    /\ ParserIdle
    /\ ThreadsIdle
    /\ EvalIdle
    /\ DocumentAbsent
    /\ StoreAbsent
    /\ ZoneIdle

\* add_product(product): add or replace, activate if nothing is active, save
AddProduct(product) ==
    /\ products' = (product.id :> product) @@ products
    /\ key_order' = IF product.id \in DOMAIN products THEN key_order
                    ELSE Append(key_order, product.id)
    /\ active_product_id' = IF active_product_id = NoneId THEN product.id
                            ELSE active_product_id
    /\ document' = SavedDocument(active_product_id', products', key_order')
    /\ last' = Call("add_product", None, product.id, "none")
    /\ UNCHANGED <<counterVars, framerVars, ioVars, parserVars, threadVars,
                   notifyVars, storeVars, zoneVars>>

\* remove_product(product_id): the first remaining key becomes active when
\* the active product is removed; saved only when something was removed
RemoveProduct(product_id) ==
    /\ IF product_id \in DOMAIN products
       THEN /\ products' = [id \in DOMAIN products \ {product_id} |-> products[id]]
            /\ key_order' = SelectSeq(key_order, LAMBDA id : id # product_id)
            /\ active_product_id' =
                   IF active_product_id = product_id
                   THEN IF key_order' = <<>> THEN NoneId ELSE Head(key_order')
                   ELSE active_product_id
            /\ document' = SavedDocument(active_product_id', products', key_order')
            /\ last' = Call("remove_product", None, product_id, "true")
       ELSE /\ last' = Call("remove_product", None, product_id, "false")
            /\ UNCHANGED <<products, key_order, active_product_id, document>>
    /\ UNCHANGED <<counterVars, framerVars, ioVars, parserVars, threadVars,
                   notifyVars, storeVars, zoneVars>>

\* MeasurementEvaluator(config_path): a new evaluator, loaded from the file
\* if it exists
NewEvaluator ==
    /\ IF document = None
       THEN /\ products' = <<>>
            /\ key_order' = <<>>
            /\ active_product_id' = NoneId
       ELSE /\ products' = LoadedProducts(document)
            /\ key_order' = LoadedKeys(document.products, <<>>)
            /\ active_product_id' = document.active_product_id
    /\ evaluation_count' = 0 /\ good_count' = 0 /\ bad_count' = 0
    /\ callbacks' = <<>>
    /\ notified' = <<>>
    /\ last' = Call("construct", None, NoneId, "none")
    /\ UNCHANGED <<document, framerVars, ioVars, parserVars, threadVars, storeVars, zoneVars>>

NextCatalog ==
    \/ \E product \in ProductInputs : AddProduct(product)
    \/ \E product_id \in ProductIds : RemoveProduct(product_id)
    \/ \E product_id \in ProductIds : SetActiveProduct(product_id)
    \/ NewEvaluator

SpecCatalog == InitCatalog /\ [][NextCatalog]_vars

\* the configuration fields of a product
ConfigOf(product) == ProductFromDict(ProductToDict(product))

(***************************************************************************)
(* C14: persistence round trip.  After any sequence of add, remove and     *)
(* activate calls, a new evaluator constructed from the same path has the  *)
(* same product ids with the same configuration fields and the same        *)
(* active product id.                                                      *)
(* The code violates it: set_active_product does not save the document, so *)
(* the new evaluator has the active id of the last add or remove.          *)
(***************************************************************************)
C14_PersistenceRoundTrip ==
    [][last'.op = "construct"
       => /\ DOMAIN products' = DOMAIN products
          /\ \A id \in DOMAIN products : ConfigOf(products'[id]) = ConfigOf(products[id])
          /\ active_product_id' = active_product_id]_vars

(***************************************************************************)
(* The application with the fieldbus server: evaluate_scan publishes every *)
(* verdict to the register store through _on_measurement_result, clients   *)
(* read and write holding registers, and writes to the control registers   *)
(* 900 and 901 call reset_statistics and set_active_product.               *)
(***************************************************************************)
\* the catalog of the running application: zone 1 with the mean and without
\* outlier rejection
AppCatalogs ==
    {c \in Catalogs : /\ ~c[1].zones[1].use_median /\ ~c[1].zones[1].outlier_rejection
                      /\ c[1].zones[2].min_points = 1}

\* a scan that makes product 1 GOOD
AppScans == {[points |-> <<Point(0, 0, 1050), Point(0, 0, 1050), Point(1, 200000, 2000)>>]}

\* what clients write: 1 and another value to register 900, a known and an
\* unknown product id to register 901
RegisterWrites ==
    {<<CONTROL_BASE, 1>>, <<CONTROL_BASE, 2>>, <<CONTROL_BASE + 1, 2>>, <<CONTROL_BASE + 1, 4>>}

\* what clients read: the control register
RegisterReads == {<<CONTROL_BASE, 1>>}

\* the ids the application's own callers activate: a known and an unknown one
AppProductIds == {1, 4}

InitApp ==
    /\ FramerIdle
    /\ IoIdle
    /\ ParserIdle
    /\ ThreadsIdle
    /\ ZoneIdle
    /\ document = None
    /\ products \in AppCatalogs
    /\ key_order = <<1, 2, 3>>
    /\ active_product_id = 1
    /\ evaluation_count = 0 /\ good_count = 0 /\ bad_count = 0
    /\ last = NoCall
    /\ callbacks = <<"publish">>
    /\ notified = <<>>
    /\ holding_registers = NewStore.holding_registers
    /\ coils = NewStore.coils
    /\ request = NoRequest

\* set_holding_register(address, value)
SetHoldingRegister(registers, address, value) ==
    IF 0 <= address /\ address < NumRegisters THEN [registers EXCEPT ![address] = value]
    ELSE registers

\* get_holding_registers(address, count): self.holding_registers[address:address + count]
GetHoldingRegisters(address, count) ==
    [k \in 1..Max0(Min(address + count, NumRegisters) - address) |->
        holding_registers[address + k - 1]]

\* function code 0x06, Write Single Register
WriteSingleRegister(address, value) ==
    /\ IF address = CONTROL_BASE /\ value = 1
       THEN ResetCounters /\ UNCHANGED active_product_id
       ELSE IF address = CONTROL_BASE + 1
       THEN Activate(value) /\ UNCHANGED counterVars
       ELSE UNCHANGED <<active_product_id, counterVars, last>>
    /\ holding_registers' = SetHoldingRegister(holding_registers, address, value)
    /\ request' = [fc |-> 6, address |-> address, value |-> value,
                   response |-> <<address, value>>]
    /\ UNCHANGED <<products, coils, framerVars, ioVars, parserVars, threadVars,
                   notifyVars, persistVars, zoneVars>>

\* function code 0x03, Read Holding Registers
ReadHoldingRegisters(address, count) ==
    /\ request' = [fc |-> 3, address |-> address, value |-> count,
                   response |-> GetHoldingRegisters(address, count)]
    /\ UNCHANGED <<products, active_product_id, counterVars, last, holding_registers, coils,
                   framerVars, ioVars, parserVars, threadVars, notifyVars, persistVars, zoneVars>>

\* function code 0x10, Write Multiple Registers, with one register
WriteMultipleRegisters(address, value) ==
    /\ holding_registers' = SetHoldingRegister(holding_registers, address, value)
    /\ request' = [fc |-> 16, address |-> address, value |-> value,
                   response |-> <<address, 1>>]
    /\ UNCHANGED <<products, active_product_id, counterVars, last, coils,
                   framerVars, ioVars, parserVars, threadVars, notifyVars, persistVars, zoneVars>>

NextApp ==
    \/ \E scan_data \in AppScans : EvaluateScan(scan_data)
    \/ ResetStatistics
    \/ \E product_id \in AppProductIds : SetActiveProduct(product_id)
    \/ \E w \in RegisterWrites : WriteSingleRegister(w[1], w[2])
    \/ \E r \in RegisterReads : ReadHoldingRegisters(r[1], r[2])
    \/ WriteMultipleRegisters(CONTROL_BASE, 1)

SpecApp == InitApp /\ [][NextApp]_vars

(***************************************************************************)
(* C13: set_active_product(id), called directly or by a client's write of  *)
(* id to register 901, returns True and makes id the active product iff id *)
(* is a key of the catalog; for an unknown id it returns False and leaves  *)
(* the active product id, the catalog and the counters unchanged.          *)
(***************************************************************************)
C13_SetActiveProduct ==
    [][\A product_id \in ProductIds :
          (SetActiveProduct(product_id) \/ WriteSingleRegister(CONTROL_BASE + 1, product_id))
          => IF product_id \in DOMAIN products
             THEN /\ last'.ret = "true"
                  /\ active_product_id' = product_id
             ELSE /\ last'.ret = "false"
                  /\ UNCHANGED <<active_product_id, products, counterVars>>]_vars

\* a client wrote the unknown id 4 to register 901 while product 2 was
\* active, and product 2 is still active
C13_Witness ==
    /\ request.fc = 6 /\ request.address = CONTROL_BASE + 1 /\ request.value = 4
    /\ last.op = "set_active_product" /\ last.product = 4 /\ last.ret = "false"
    /\ active_product_id = 2
    /\ evaluation_count = 1

(***************************************************************************)
(* C18: a write of 1 to holding register 900 calls reset_statistics and    *)
(* then clears the register, so that register 900 reads 0 right after the  *)
(* write; a write of another value to 900 does not reset the statistics.   *)
(* The code violates it: the written value is stored in the register after *)
(* the callback, and register 900 reads 1.                                 *)
(***************************************************************************)
C18_ResetRegisterClears ==
    [][\A w \in RegisterWrites :
          (w[1] = CONTROL_BASE /\ WriteSingleRegister(w[1], w[2]))
          => IF w[2] = 1
             THEN /\ last'.op = "reset_statistics"
                  /\ evaluation_count' = 0 /\ good_count' = 0 /\ bad_count' = 0
                  /\ holding_registers'[CONTROL_BASE] = 0
             ELSE UNCHANGED counterVars]_vars

\* what clients and callers can observe: the counters, the holding
\* registers and the coils
Observable ==
    [evaluation_count |-> evaluation_count, good_count |-> good_count,
     bad_count |-> bad_count, holding_registers |-> holding_registers, coils |-> coils]

\* Observable after a direct call of reset_statistics()
AfterResetStatistics ==
    [evaluation_count |-> 0, good_count |-> 0, bad_count |-> 0,
     holding_registers |-> holding_registers, coils |-> coils]

(***************************************************************************)
(* C19: reset equivalence.  From the same state, a client's write of 1 to  *)
(* register 900 and a direct call of reset_statistics() lead to the same   *)
(* observable state (counters, holding registers, coils).                  *)
(* The code violates it: after the write register 900 holds 1, after the   *)
(* direct call it holds what it held before.                               *)
(***************************************************************************)
C19_ResetEquivalence ==
    [][WriteSingleRegister(CONTROL_BASE, 1) => Observable' = AfterResetStatistics]_vars

(***************************************************************************)
(* The register store on its own: update_from_product applied to products  *)
(* with 0 to 17 zones and to counters on both sides of 2^16.               *)
(***************************************************************************)
\* a zone as an evaluation leaves it: verdict, measurement and point count set
StoreZone(id, verdict, point_count) ==
    [MeasurementZone(id, 150000, 250000, 2000, 50, 50, 1, TRUE, FALSE, [n |-> 2, d |-> 1])
        EXCEPT !.last_result = verdict,
               !.last_measurement = IF verdict = GOOD THEN Frac(2000, 1) ELSE Frac(2100, 1),
               !.point_count = point_count]

\* numbers of zones of the product: none, few, the last that fits the
\* register list, the first that does not, MAX_ZONES, more than MAX_ZONES
ZoneCounts == {0, 1, 2, 9, 10, 16, 17}

\* points found in a zone
PointCounts == {3, 70000}

\* evaluation, good and bad counts
CounterValues == {<<0, 0, 0>>, <<70000, 70000, 0>>, <<65536, 65535, 1>>, <<131071, 65536, 65535>>, <<2147483647, 2147483647, 0>>}

\* product 1 with n zones of one verdict, product 2 with one good zone
StoreCatalogs ==
    {(1 :> [ProductConfig(1, [i \in 1..n |-> StoreZone(i, r, points)]) EXCEPT !.last_result = r])
       @@ (2 :> [ProductConfig(2, <<StoreZone(1, GOOD, 3)>>) EXCEPT !.last_result = GOOD]) :
        n \in ZoneCounts, r \in {GOOD, BAD}, points \in PointCounts}

InitStore ==
    /\ FramerIdle
    /\ IoIdle
    /\ ParserIdle
    /\ ThreadsIdle
    /\ ZoneIdle
    /\ DocumentAbsent
    /\ products \in StoreCatalogs
    /\ key_order = <<1, 2>>
    /\ active_product_id = 1
    /\ \E c \in CounterValues :
          evaluation_count = c[1] /\ good_count = c[2] /\ bad_count = c[3]
    /\ last = NoCall
    /\ callbacks = <<>>
    /\ notified = <<>>
    /\ holding_registers = NewStore.holding_registers
    /\ coils = NewStore.coils
    /\ request = NoRequest

\* ModbusTCPServer.update_from_product(product, stats), stats being
\* get_statistics(); last.ret tells whether the call raised
StoreUpdate(product_id) ==
    /\ \E s \in {UpdateFromProduct(Store, products[product_id],
                                   Statistics(evaluation_count, good_count, bad_count))} :
          /\ holding_registers' = s.holding_registers
          /\ coils' = s.coils
          /\ last' = Call("update_from_product", None, product_id,
                          IF s.raised THEN "raised" ELSE "none")
    /\ UNCHANGED <<products, active_product_id, counterVars, framerVars, ioVars, parserVars,
                   threadVars, notifyVars, persistVars, request, zoneVars>>

NextStore == \E product_id \in {1, 2} : StoreUpdate(product_id)

SpecStore == InitStore /\ [][NextStore]_vars

\* the store has been updated from last.product
Updated == last.op = "update_from_product"

\* the holding register at address, -1 where the list has no such register
Register(address) ==
    IF address \in DOMAIN holding_registers THEN holding_registers[address] ELSE -1

\* (hi << 16) | lo of the register pair at address, -1 where a word is
\* missing or outside 0..65535
RegisterPair(address) ==
    IF /\ Register(address) \in 0..65535
       /\ Register(address + 1) \in 0..65535
    THEN Register(address) * 65536 + Register(address + 1)
    ELSE -1

\* the zones of the product exposed to the fieldbus: min(n, 16)
Exposed(product) == Min(Len(product.zones), MAX_ZONES)

(***************************************************************************)
(* C17: after every verdict update the register pairs of the evaluation,   *)
(* good and bad counts (4-5, 6-7, 8-9) and of the point count of every     *)
(* exposed zone (100 + 100*z + 12, + 13) hold the value as (hi << 16) | lo *)
(* with both words in 0..65535.                                            *)
(* The code violates it for the zones of index 9 and above: their blocks   *)
(* lie past the end of the 1000 registers and the update raises.           *)
(***************************************************************************)
C17_SplitU32 ==
    Updated =>
        /\ RegisterPair(STATUS_BASE + 4) = evaluation_count
        /\ RegisterPair(STATUS_BASE + 6) = good_count
        /\ RegisterPair(STATUS_BASE + 8) = bad_count
        /\ \A z \in 0..(Exposed(products[last.product]) - 1) :
              RegisterPair(ZONE_BASE + z * ZONE_SIZE + 12)
                  = products[last.product].zones[z + 1].point_count

(***************************************************************************)
(* C20: for a product with n zones every verdict update completes without  *)
(* error, writes the block of zone index z at 100 + 100*z + k for every    *)
(* z < min(n, 16), and zeroes the blocks and coils of the unused indices   *)
(* min(n, 16)..15.                                                         *)
(* The code violates it for every n: the list has 1000 registers, the      *)
(* block of zone index 9 starts at 1000, and writing or clearing it raises *)
(* IndexError.                                                             *)
(***************************************************************************)
C20_ZoneRegisterMap ==
    Updated =>
        /\ last.ret = "none"
        /\ \A z \in 0..(Exposed(products[last.product]) - 1) :
              LET zone == products[last.product].zones[z + 1]
                  base == ZONE_BASE + z * ZONE_SIZE
              IN  /\ Register(base) = zone.id
                  /\ Register(base + 1) = 1
                  /\ Register(base + 2) = zone.last_result
                  /\ Register(base + 3) = (IF zone.last_result = GOOD THEN 1 ELSE 0)
                  /\ coils[COIL_ZONE_GOOD_BASE + z] = (zone.last_result = GOOD)
                  /\ coils[COIL_ZONE_BAD_BASE + z] = (zone.last_result = BAD)
        /\ \A z \in Exposed(products[last.product])..(MAX_ZONES - 1) :
              /\ \A k \in 0..13 : Register(ZONE_BASE + z * ZONE_SIZE + k) = 0
              /\ ~coils[COIL_ZONE_GOOD_BASE + z]
              /\ ~coils[COIL_ZONE_BAD_BASE + z]

(***************************************************************************)
(* _evaluate_zone on its own: a zone and the distances collected for it,   *)
(* in millimetres and exact arithmetic.  No comparison of these inputs     *)
(* lies within a rounding error of its boundary, except where noted.       *)
(***************************************************************************)
\* zones expecting 1.000 m +-0.050
ZoneInputs ==
    {MeasurementZone(1, -100000, 100000, 1000, 50, 50, min_points, use_median,
                     outlier_rejection, std_factor) :
        min_points \in {1, 3}, use_median \in BOOLEAN, outlier_rejection \in BOOLEAN,
        std_factor \in {[n |-> 2, d |-> 1], [n |-> 3, d |-> 2]}}

\* the orders in which the elements of seq can appear
Orders(seq) ==
    {[i \in 1..Len(seq) |-> seq[f[i]]] :
        f \in {g \in [1..Len(seq) -> 1..Len(seq)] :
                  \A i, j \in 1..Len(seq) : g[i] = g[j] => i = j}}

\* 1.00, 1.01, 1.02 and 5.00 m in every order; the same with two more near
\* points; three and four near points
DistanceInputs ==
    Orders(<<1000, 1010, 1020, 5000>>)
        \cup {<<1000, 1010, 1020, 1010, 1000, 5000>>, <<5000, 1000, 1010, 1020, 1010, 1000>>,
              <<1000, 1010, 1020>>, <<1000, 1010, 1020, 1030>>}

InitZone ==
    /\ FramerIdle
    /\ IoIdle
    /\ ParserIdle
    /\ EvalIdle
    /\ ThreadsIdle
    /\ DocumentAbsent
    /\ StoreAbsent
    /\ zone_in \in ZoneInputs
    /\ distances_in \in DistanceInputs
    /\ outcome = Pending

\* result, measurement = self._evaluate_zone(zone, zone_points)
EvaluateZoneCall ==
    /\ outcome' = EvaluateZone(zone_in, distances_in)
    /\ UNCHANGED <<zone_in, distances_in, framerVars, ioVars, parserVars, evalVars, threadVars,
                   notifyVars, persistVars, storeVars>>

NextZone == EvaluateZoneCall

SpecZone == InitZone /\ [][NextZone]_vars

\* the zone of scenario S5, and its four distances in some order
S5 ==
    /\ outcome # Pending
    /\ zone_in.outlier_rejection
    /\ zone_in.outlier_std_factor = [n |-> 2, d |-> 1]
    /\ ~zone_in.use_median
    /\ zone_in.min_points <= 3
    /\ Sorted(distances_in) = <<1000, 1010, 1020, 5000>>

(***************************************************************************)
(* C15, as the code has it: in scenario S5 (outlier rejection with factor  *)
(* 2.0, mean, min_points <= 3, distances 1.00, 1.01, 1.02 and 5.00) no     *)
(* distance is rejected, 5.00 being within 2.0 standard deviations of the  *)
(* mean, and the measurement is the mean of the four, 2.0075 m.            *)
(***************************************************************************)
C15_S5KeepsAll ==
    S5 => /\ ~outcome.raised
          /\ outcome.measurement = Frac(1000 + 1010 + 1020 + 5000, 4)
          /\ outcome.result = BAD

C15_Witness ==
    /\ S5
    /\ distances_in = <<1000, 1010, 1020, 5000>>
    /\ outcome.measurement = [n |-> 4015, d |-> 2]

(***************************************************************************)
(* C15, as stated: in scenario S5 the distance 5.00 is rejected and the    *)
(* measurement is the mean of the remaining three, 1.01 m.                 *)
(***************************************************************************)
C15_S5RejectsOutlier ==
    S5 => outcome.measurement = Frac(1000 + 1010 + 1020, 3)

(***************************************************************************)
(* The statistic of _evaluate_zone in the arithmetic the interpreter uses: *)
(* a Python float is an IEEE 754 binary64 number, and every operation      *)
(* rounds its exact result to 53 significant bits, ties to even.  A float  *)
(* is [s, m, e]: sign s, 53 bits m (most significant first, the first one  *)
(* set) and the exponent e of the last bit, or no bits for zero.  The      *)
(* values here are far from the overflow and underflow limits.             *)
(***************************************************************************)
DblZero == [s |-> 0, m |-> <<>>, e |-> 0]

\* the bits without leading zeros
Strip(bits) ==
    IF \A i \in 1..Len(bits) : bits[i] = 0 THEN <<>>
    ELSE SubSeq(bits,
                CHOOSE i \in 1..Len(bits) : bits[i] = 1 /\ \A j \in 1..(i - 1) : bits[j] = 0,
                Len(bits))

\* the bits of the natural number n < 2^31
NatBits(n) == Strip([i \in 1..31 |-> (n \div 2^(31 - i)) % 2])

PadLeft(bits, k) == Zeros(k - Len(bits)) \o bits

\* the carry into bit i of x + y: a lower bit generates one and the bits
\* between pass it on
CarryInto(x, y, i) ==
    IF \E j \in (i + 1)..Len(x) :
           x[j] + y[j] = 2 /\ \A k \in (i + 1)..(j - 1) : x[k] + y[k] = 1
    THEN 1
    ELSE 0

\* x + y for two numbers of the same length: one bit more
AddSame(x, y) ==
    [i \in 1..(Len(x) + 1) |->
        IF i = 1 THEN CarryInto(x, y, 0)
        ELSE (x[i - 1] + y[i - 1] + CarryInto(x, y, i - 1)) % 2]

AddPadded(a, b, k) == AddSame(PadLeft(a, k), PadLeft(b, k))

AddBits(a, b) == AddPadded(a, b, IF Len(a) > Len(b) THEN Len(a) ELSE Len(b))

\* the borrow from bit i of x - y: the lower bits of x are less than those of y
BorrowFrom(x, y, i) ==
    IF \E j \in (i + 1)..Len(x) :
           x[j] < y[j] /\ \A k \in (i + 1)..(j - 1) : x[k] = y[k]
    THEN 1
    ELSE 0

\* x - y for two numbers of the same length, x >= y
SubSame(x, y) == [i \in 1..Len(x) |-> (x[i] - y[i] - BorrowFrom(x, y, i) + 2) % 2]

SubBits(a, b) == SubSame(a, PadLeft(b, Len(a)))

\* a < b for two numbers of the same length
LessBits(a, b) ==
    \E i \in 1..Len(a) : a[i] < b[i] /\ \A j \in 1..(i - 1) : a[j] = b[j]

\* the 53 bits kept, incremented: a carry out of the first bit moves the exponent
RoundedUp(s, sum, e) ==
    IF sum[1] = 1 THEN [s |-> s, m |-> SubSeq(sum, 1, 53), e |-> e + 1]
    ELSE [s |-> s, m |-> SubSeq(sum, 2, 54), e |-> e]

\* round half to even: kept are the first 53 bits, rest the bits after them
RoundKept(s, kept, rest, e) ==
    IF /\ rest[1] = 1
       /\ \/ kept[53] = 1
          \/ \E i \in 2..Len(rest) : rest[i] = 1
    THEN RoundedUp(s, AddBits(kept, <<1>>), e)
    ELSE [s |-> s, m |-> kept, e |-> e]

RoundStripped(s, bits, e) ==
    IF bits = <<>> THEN DblZero
    ELSE IF Len(bits) <= 53
    THEN [s |-> s, m |-> bits \o Zeros(53 - Len(bits)), e |-> e - (53 - Len(bits))]
    ELSE RoundKept(s, SubSeq(bits, 1, 53), SubSeq(bits, 54, Len(bits)), e + Len(bits) - 53)

\* the float nearest to (-1)^s * bits * 2^e
Round53(s, bits, e) == RoundStripped(s, Strip(bits), e)

\* a and b are the magnitudes of two floats of signs sa and sb, on one exponent
AddAligned(sa, a, sb, b, e) ==
    IF sa = sb THEN Round53(sa, AddBits(a, b), e)
    ELSE IF a = b THEN DblZero
    ELSE IF LessBits(a, b) THEN Round53(sb, SubBits(b, a), e)
    ELSE Round53(sa, SubBits(a, b), e)

AlignedTo(x, e, k) == PadLeft(x.m \o Zeros(x.e - e), k)

AddFrom0(x, y, e, k) == AddAligned(x.s, AlignedTo(x, e, k), y.s, AlignedTo(y, e, k), e)

AddOn(x, y, e) ==
    AddFrom0(x, y, e, IF x.e - e > y.e - e THEN 53 + x.e - e ELSE 53 + y.e - e)

\* x + y
DblAdd(x, y) ==
    IF x.m = <<>> THEN y
    ELSE IF y.m = <<>> THEN x
    ELSE AddOn(x, y, IF x.e < y.e THEN x.e ELSE y.e)

\* x - y
DblSub(x, y) == DblAdd(x, [y EXCEPT !.s = IF y.m = <<>> THEN 0 ELSE 1 - y.s])

\* x <= y
DblLeq(x, y) == \E d \in {DblSub(x, y)} : d.m = <<>> \/ d.s = 1

\* abs(x)
DblAbs(x) == [x EXCEPT !.s = 0]

\* the division works on digits of 13 bits; the digit whose bits follow position o
LimbAt(bits, o) ==
    bits[o + 1] * 4096 + bits[o + 2] * 2048 + bits[o + 3] * 1024 + bits[o + 4] * 512
        + bits[o + 5] * 256 + bits[o + 6] * 128 + bits[o + 7] * 64 + bits[o + 8] * 32
        + bits[o + 9] * 16 + bits[o + 10] * 8 + bits[o + 11] * 4 + bits[o + 12] * 2
        + bits[o + 13]

\* the digits of a number whose length is a multiple of 13
Limbs(bits) == [j \in 1..(Len(bits) \div 13) |-> LimbAt(bits, (j - 1) * 13)]

\* the bits of the digits
BitsOf(limbs) ==
    [i \in 1..(Len(limbs) * 13) |->
        (limbs[(i - 1) \div 13 + 1] \div 2^(13 - 1 - ((i - 1) % 13))) % 2]

\* long division of the digits by d < 2^10 from digit i on, remainder r so far
RECURSIVE DivLimbs(_, _, _, _, _)
DivLimbs(limbs, d, i, r, q) ==
    IF i > Len(limbs) THEN [q |-> BitsOf(q), r |-> r]
    ELSE DivLimbs(limbs, d, i + 1, (r * 8192 + limbs[i]) % d,
                  Append(q, (r * 8192 + limbs[i]) \div d))

\* bits divided by the natural number d: quotient bits and remainder
DivBits(bits, d) ==
    DivLimbs(Limbs(PadLeft(bits, 13 * ((Len(bits) + 13 - 1) \div 13))),
             d, 1, 0, <<>>)

\* quotient bits, and a last bit that tells whether there is a remainder
Quotient(qr) == qr.q \o <<IF qr.r = 0 THEN 0 ELSE 1>>

\* x / d for an integer 0 < d < 2^10, with 12 guard bits
DblDivNat(x, d) ==
    IF x.m = <<>> THEN DblZero
    ELSE Round53(x.s, Quotient(DivBits(x.m \o Zeros(12), d)),
                 x.e - 12 - 1)

\* float(n) for a natural number n
DblNat(n) == Round53(0, NatBits(n), 0)

\* the float of mm millimetres in metres, mm / 1000.0
Metres(mm) == DblDivNat(DblNat(mm), 1000)

\* sum() of Python up to 3.11: the floats are added from left to right
RECURSIVE SumLeftToRight(_, _, _)
SumLeftToRight(xs, i, f) ==
    IF i > Len(xs) THEN f ELSE SumLeftToRight(xs, i + 1, DblAdd(f, xs[i]))

\* the compensation of one addition t = f + x
Compensation(f, x, t) ==
    IF DblLeq(DblAbs(x), DblAbs(f)) THEN DblAdd(DblSub(f, t), x)
    ELSE DblAdd(DblSub(x, t), f)

\* sum() of Python from 3.12 on: Neumaier's compensated summation
RECURSIVE SumCompensated(_, _, _, _)
SumCompensated(xs, i, f, c) ==
    IF i > Len(xs) THEN DblAdd(f, c)
    ELSE SumCompensated(xs, i + 1, DblAdd(f, xs[i]),
                        DblAdd(c, Compensation(f, xs[i], DblAdd(f, xs[i]))))

\* sum(distances)
DblSum(xs, compensated) ==
    IF compensated THEN SumCompensated(xs, 1, DblZero, DblZero)
    ELSE SumLeftToRight(xs, 1, DblZero)

RECURSIVE DblInsert(_, _)
DblInsert(x, sorted) ==
    IF sorted = <<>> THEN <<x>>
    ELSE IF DblLeq(x, Head(sorted)) THEN <<x>> \o sorted
    ELSE <<Head(sorted)>> \o DblInsert(x, Tail(sorted))

\* sorted(distances)
RECURSIVE DblSorted(_)
DblSorted(xs) == IF xs = <<>> THEN <<>> ELSE DblInsert(Head(xs), DblSorted(Tail(xs)))

\* the median of the sorted floats
MiddleOf(distances_sorted, n) ==
    IF n % 2 = 0
    THEN DblDivNat(DblAdd(distances_sorted[n \div 2], distances_sorted[n \div 2 + 1]), 2)
    ELSE distances_sorted[n \div 2 + 1]

\* the measurement of the floats xs
DblStatistic(use_median, xs, compensated) ==
    IF use_median THEN MiddleOf(DblSorted(xs), Len(xs))
    ELSE DblDivNat(DblSum(xs, compensated), Len(xs))

\* lower_bound <= measurement <= upper_bound
DblVerdict(zone, measurement) ==
    IF /\ DblLeq(DblSub(Metres(zone.expected_distance), Metres(zone.tolerance_minus)), measurement)
       /\ DblLeq(measurement, DblAdd(Metres(zone.expected_distance), Metres(zone.tolerance_plus)))
    THEN GOOD
    ELSE BAD

DblReturn(r, measurement, compensated) ==
    [raised |-> FALSE, result |-> r, measurement |-> measurement, compensated |-> compensated]

DblMeasured(zone, measurement, compensated) ==
    DblReturn(DblVerdict(zone, measurement), measurement, compensated)

\* _evaluate_zone on floats, for a zone without outlier rejection or with at
\* most 3 distances, and at least one distance; compensated tells which sum()
\* the interpreter has
EvaluateZoneDbl(zone, distances, compensated) ==
    IF Len(distances) < zone.min_points THEN DblReturn(NO_TARGET, DblZero, compensated)
    ELSE DblMeasured(zone,
                     DblStatistic(zone.use_median,
                                  [i \in 1..Len(distances) |-> Metres(distances[i])],
                                  compensated),
                     compensated)

\* zones without outlier rejection expecting 1.050 m +0.050 -0.030, that is
\* 1.02 to 1.10 m
FloatZoneInputs ==
    {MeasurementZone(1, -100000, 100000, 1050, 50, 30, min_points, use_median, FALSE,
                     [n |-> 2, d |-> 1]) :
        min_points \in {1, 4}, use_median \in BOOLEAN}

\* distances in millimetres, in every order in which a scan can hold them
FloatDistanceInputs ==
    Orders(<<1000, 1010, 1050>>) \cup Orders(<<100, 200, 300>>)
        \cup Orders(<<1000, 1100, 1200, 1300>>) \cup {<<1020>>, <<1000, 1040>>, <<1040, 1000>>}

\* the interpreter that runs the evaluator: its sum() adds from left to right
\* (Python up to 3.11) or compensates (Python 3.12 and later)
Interpreters == {[pending |-> TRUE, compensated |-> c] : c \in BOOLEAN}

InitFloat ==
    /\ FramerIdle
    /\ IoIdle
    /\ ParserIdle
    /\ EvalIdle
    /\ ThreadsIdle
    /\ DocumentAbsent
    /\ StoreAbsent
    /\ zone_in \in FloatZoneInputs
    /\ distances_in \in FloatDistanceInputs
    /\ outcome \in Interpreters

\* result, measurement = self._evaluate_zone(zone, zone_points)
EvaluateZoneFloat ==
    /\ outcome' = EvaluateZoneDbl(zone_in, distances_in, outcome.compensated)
    /\ UNCHANGED <<zone_in, distances_in, framerVars, ioVars, parserVars, evalVars, threadVars,
                   notifyVars, persistVars, storeVars>>

NextFloat == EvaluateZoneFloat

SpecFloat == InitFloat /\ [][NextFloat]_vars

\* _evaluate_zone has returned a measurement
Measured == "result" \in DOMAIN outcome /\ outcome.result # NO_TARGET

\* the distances as floats, in ascending order
Ascending == DblSorted([i \in 1..Len(distances_in) |-> Metres(distances_in[i])])

\* the median is the middle element of the sorted distances, or the average
\* of the two middle elements
MedianRule ==
    (Measured /\ zone_in.use_median) =>
        outcome.measurement =
            IF Len(Ascending) % 2 = 1 THEN Ascending[(Len(Ascending) + 1) \div 2]
            ELSE DblDivNat(DblAdd(Ascending[Len(Ascending) \div 2],
                                  Ascending[Len(Ascending) \div 2 + 1]), 2)

\* the mean is the sum of the distances divided by their number
MeanRule ==
    (Measured /\ ~zone_in.use_median) =>
        outcome.measurement
            = DblDivNat(DblSum(Ascending, outcome.compensated), Len(Ascending))

\* the same distances in another order give the same measurement and verdict
OrderIndependent ==
    "result" \in DOMAIN outcome =>
        \A other \in Orders(distances_in) :
            EvaluateZoneDbl(zone_in, other, outcome.compensated) = outcome

(***************************************************************************)
(* C16: with the median statistic the measurement is the middle element of *)
(* the sorted distances for an odd count and the average of the two middle *)
(* elements for an even count; with the mean statistic it is the           *)
(* arithmetic mean; and the result does not depend on the order in which   *)
(* the points appear in the scan.                                          *)
(* The code violates the last part for the mean under an interpreter whose *)
(* sum() adds from left to right: 1.050, 1.010, 1.000 give 1.02 (GOOD) and *)
(* 1.000, 1.010, 1.050 give 1.0199999999999998 (BAD).                      *)
(***************************************************************************)
C16_StatisticSelection == MedianRule /\ MeanRule /\ OrderIndependent

(***************************************************************************)
(* Two fieldbus clients, each served by its own thread (_handle_client),   *)
(* and the verdict updates of the event loop, on one register store.  A    *)
(* step is one stretch of code run under ModbusDataStore._lock.  The       *)
(* writer sends Write Multiple Registers requests: its handler calls       *)
(* set_holding_register once per register, taking the lock each time.      *)
(***************************************************************************)
\* Write Multiple Registers requests: start address and values
WriteRequests ==
    {[start_addr |-> 950, values |-> <<1, 2>>],
     [start_addr |-> 950, values |-> <<2, 1>>],
     [start_addr |-> 951, values |-> <<7, 8, 9>>]}

\* Read Holding Registers requests: start address and count
ClientReads == {<<950, 2>>, <<950, 4>>, <<952, 2>>, <<0, 4>>}

\* no Write Multiple Registers request is being handled
NoWrite == [start_addr |-> 0, values |-> <<>>, i |-> 0, before |-> <<>>]

InitClients ==
    /\ FramerIdle
    /\ IoIdle
    /\ ParserIdle
    /\ ZoneIdle
    /\ DocumentAbsent
    /\ products \in AppCatalogs
    /\ key_order = <<1, 2, 3>>
    /\ active_product_id = 1
    /\ evaluation_count = 0 /\ good_count = 0 /\ bad_count = 0
    /\ last = NoCall
    /\ callbacks = <<>>
    /\ notified = <<>>
    /\ holding_registers = NewStore.holding_registers
    /\ coils = NewStore.coils
    /\ request = NoRequest
    /\ pc = [t \in {"writer", "reader"} |-> "idle"]
    /\ lock = "free"
    /\ store_lock = "free"
    /\ local = NoWrite

\* function code 0x10: the request is decoded; before holds the registers of
\* its range as they are when the handler starts
WriteMultipleBegin(w) ==
    /\ pc["writer"] = "idle"
    /\ pc' = [pc EXCEPT !["writer"] = "writing"]
    /\ local' = [start_addr |-> w.start_addr, values |-> w.values, i |-> 0,
                 before |-> GetHoldingRegisters(w.start_addr, Len(w.values))]
    /\ UNCHANGED <<lock, store_lock, evalVars, framerVars, ioVars, parserVars, appVars>>

\* function code 0x10: self.data_store.set_holding_register(start_addr + i, value)
WriteMultipleStep ==
    /\ pc["writer"] = "writing"
    /\ local.i < Len(local.values)
    /\ holding_registers' = SetHoldingRegister(holding_registers, local.start_addr + local.i,
                                                local.values[local.i + 1])
    /\ local' = [local EXCEPT !.i = local.i + 1]
    /\ UNCHANGED <<pc, lock, store_lock, request, coils, evalVars, framerVars, ioVars, parserVars,
                   notifyVars, persistVars, zoneVars>>

\* function code 0x10: return data[:4]
WriteMultipleEnd ==
    /\ pc["writer"] = "writing"
    /\ local.i = Len(local.values)
    /\ pc' = [pc EXCEPT !["writer"] = "idle"]
    /\ request' = [fc |-> 16, address |-> local.start_addr, value |-> Len(local.values),
                   response |-> <<local.start_addr, Len(local.values)>>]
    /\ local' = NoWrite
    /\ UNCHANGED <<lock, store_lock, holding_registers, coils, evalVars, framerVars, ioVars, parserVars,
                   notifyVars, persistVars, zoneVars>>

NextClients ==
    \/ \E w \in WriteRequests : WriteMultipleBegin(w)
    \/ WriteMultipleStep
    \/ WriteMultipleEnd
    \/ \E r \in ClientReads : ReadHoldingRegisters(r[1], r[2])
    \/ StoreUpdate(1)

SpecClients == InitClients /\ [][NextClients]_vars

\* the registers with the range of the request being handled set to words
WithRange(words) ==
    [a \in DOMAIN holding_registers |->
        IF a >= local.start_addr /\ a < local.start_addr + Len(words)
        THEN words[a - local.start_addr + 1]
        ELSE holding_registers[a]]

\* registers[address:address + count]
SliceOf(registers, address, count) ==
    [k \in 1..Max0(Min(address + count, NumRegisters) - address) |-> registers[address + k - 1]]

(***************************************************************************)
(* C21: a Read Holding Registers over a range never observes a concurrent  *)
(* Write Multiple Registers partly applied to that range: what it returns  *)
(* is the range as it was before the write or as it is after the whole     *)
(* write.                                                                  *)
(* The code violates it: the write handler releases the lock between two   *)
(* registers, and a read served in between returns the first registers     *)
(* written and the others not.                                             *)
(***************************************************************************)
C21_ReadAtomicity ==
    [][\A r \in ClientReads :
          ReadHoldingRegisters(r[1], r[2])
          => request'.response \in {SliceOf(WithRange(local.before), r[1], r[2]),
                                    SliceOf(WithRange(local.values), r[1], r[2])}]_vars

(***************************************************************************)
(* The UDP receiver: MRS1000Receiver._receive_loop on its own thread, fed  *)
(* with one telegram per datagram, and get_scan() called from outside.     *)
(* The sensor numbers its telegrams; with no datagram lost the number in   *)
(* the next one is packets_received + 1.                                   *)
(***************************************************************************)
\* queue.Queue(maxsize=100)
QueueMaxsize == 100

\* datagrams accepted in one run
MaxPackets == 103
\* the first LateFrom datagrams are well-formed scans, which fills the
\* queue; damaged datagrams, socket errors and get_scan() come after them
LateFrom == 98
MaxGets == 2
MaxErrors == 1

\* a scan-data payload with scan counter n and no channel
ScanPayload(n) == CmdScanData \o <<32>> \o BodyHeader(0, 0, n, 0, 0) \o BytesU16(0)

\* a scan-data payload whose body stops inside the fixed header
ShortPayload(n) == CmdScanData \o <<32>> \o Zeros(8) \o BytesU16(n)

\* the datagrams the sensor may send as its n-th: a well-formed scan, the
\* same with a checksum that is off by one, a telegram that is no scan data,
\* and a scan-data telegram whose body is too short
GoodDatagram(n) == MakeTelegram(ScanPayload(n), XorAll(ScanPayload(n)))
BadChecksumDatagram(n) == MakeTelegram(ScanPayload(n), (XorAll(ScanPayload(n)) + 1) % 256)
NoMarkerDatagram == TelABC
ShortBodyDatagram(n) == MakeTelegram(ShortPayload(n), XorAll(ShortPayload(n)))

DamagedDatagrams(n) == {BadChecksumDatagram(n), NoMarkerDatagram, ShortBodyDatagram(n)}

InitReceiver ==
    /\ FramerIdle
    /\ ParserIdle
    /\ EvalIdle
    /\ DocumentAbsent
    /\ StoreAbsent
    /\ ZoneIdle
    /\ EipAbsent
    /\ WsIdle
    /\ ReceiverIdle
    /\ pc = [t \in {"receiver"} |-> "recv"]
    /\ lock = "free"
    /\ store_lock = "free"
    /\ local = <<>>

RECURSIVE PutScans(_, _, _)
\* for scan in scans: put_nowait(scan), then the callbacks, up to the first
\* scan for which put_nowait raises queue.Full
PutScans(queue, pending, done) ==
    IF pending = <<>> \/ Len(queue) >= QueueMaxsize
    THEN [queue |-> queue, done |-> done, rest |-> pending]
    ELSE PutScans(Append(queue, Head(pending)), Tail(pending), Append(done, Head(pending)))

\* the body of the scan loop from the queue `queue` on, for the scans `pending`
ScanLoop(queue, pending, parsed, handed) ==
    \E r \in {PutScans(queue, pending, <<>>)} :
        /\ data_queue' = r.queue
        /\ delivered' = handed \o r.done
        /\ scans_parsed' = parsed + Len(r.done) + (IF r.rest = <<>> THEN 0 ELSE 1)
        /\ local' = r.rest
        /\ pc' = [pc EXCEPT !["receiver"] = IF r.rest = <<>> THEN "recv" ELSE "full"]

\* one pass of the receive loop for a datagram that passes the sensor_ip
\* filter, up to the end of the pass or to a queue.Full
ReceivePass(data) ==
    /\ pc["receiver"] = "recv"
    /\ packets_received' = packets_received + 1
    /\ bytes_received' = bytes_received + Len(data)
    /\ \E r \in {FeedResult(buffer, data)} :
           /\ buffer' = r.buffer
           /\ scan_count' = scan_count + Len(r.scans)
           /\ ScanLoop(data_queue, r.scans, scans_parsed, delivered)
    /\ UNCHANGED <<errors, taken, sensor_ip, lock, store_lock, stream, pos, emitted, scans, calls,
                   parserVars, evalVars, appVars, eipVars, wsVars>>

\* one pass of the receive loop for the datagram data, which the sensor
\* sends as the pass begins (no sensor_ip filter is configured)
Receive(data) ==
    /\ sensor_ip = ""
    /\ ReceivePass(data)
    /\ UNCHANGED inbound

\* a receiver that keeps the full queue as it is and discards the new scan
DropNewest ==
    /\ pc["receiver"] = "full"
    /\ ScanLoop(data_queue, Tail(local), scans_parsed, Append(delivered, Head(local)))
    /\ UNCHANGED <<packets_received, errors, taken, socketVars, bytes_received, lock, store_lock,
                   framerVars, parserVars, evalVars, appVars, eipVars, wsVars>>

\* except queue.Full: get_nowait() removes the oldest scan and put_nowait()
\* appends the new one; an empty queue makes get_nowait() raise, which is
\* passed over.  Then the callbacks for the scan and the rest of the pass.
DropOldest ==
    /\ pc["receiver"] = "full"
    /\ ScanLoop(IF data_queue = <<>> THEN <<>> ELSE Append(Tail(data_queue), Head(local)),
                Tail(local), scans_parsed, Append(delivered, Head(local)))
    /\ UNCHANGED <<packets_received, errors, taken, socketVars, bytes_received, lock, store_lock,
                   framerVars, parserVars, evalVars, appVars, eipVars, wsVars>>

\* recvfrom raises something other than socket.timeout
SocketError ==
    /\ pc["receiver"] = "recv"
    /\ errors < MaxErrors
    /\ errors' = errors + 1
    /\ UNCHANGED <<data_queue, packets_received, scans_parsed, delivered, taken,
                   socketVars, bytes_received,
                   threadVars, framerVars, parserVars, evalVars, appVars, eipVars, wsVars>>

\* get_scan() on a queue that holds a scan, as long as fewer than limit scans
\* have been taken
TakeScan(limit) ==
    /\ data_queue # <<>>
    /\ Len(taken) < limit
    /\ taken' = Append(taken, Head(data_queue))
    /\ data_queue' = Tail(data_queue)
    /\ UNCHANGED <<packets_received, scans_parsed, errors, delivered,
                   socketVars, bytes_received,
                   threadVars, framerVars, parserVars, evalVars, appVars, eipVars, wsVars>>

GetScan == TakeScan(MaxGets)

Late == packets_received >= LateFrom

NextReceiver ==
    \/ packets_received < MaxPackets /\ Receive(GoodDatagram(packets_received + 1))
    \/ /\ packets_received < MaxPackets
       /\ Late
       /\ \E data \in DamagedDatagrams(packets_received + 1) : Receive(data)
    \/ DropOldest
    \/ Late /\ SocketError
    \/ Late /\ GetScan

SpecReceiver == InitReceiver /\ [][NextReceiver]_vars

\* the last n elements of s
LastOf(s, n) == SubSeq(s, Len(s) - n + 1, Len(s))

\* C22: the ingest queue never holds more than its capacity of 100 scans; a
\* scan that arrives while the queue is full replaces the oldest queued scan
\* and is appended at the end; and as long as get_scan() has taken nothing,
\* the queue holds, at the end of every pass of the receive loop, the most
\* recent min(received, capacity) scans in arrival order.
C22_BoundedDropOldest ==
    /\ Len(data_queue) <= QueueMaxsize
    /\ (taken = <<>> /\ pc["receiver"] = "recv")
       => /\ Len(delivered) = scans_parsed
          /\ data_queue = LastOf(delivered, Min(scans_parsed, QueueMaxsize))

\* the queue is full of the scans 3 to 102: two scans were dropped as the oldest
C22_Witness ==
    /\ taken = <<>>
    /\ pc["receiver"] = "recv"
    /\ scans_parsed = QueueMaxsize + 2
    /\ Len(data_queue) = QueueMaxsize
    /\ Head(data_queue).scan_number = 3
    /\ data_queue[QueueMaxsize].scan_number = QueueMaxsize + 2

\* C29: every telegram the ingest path drops for a bad checksum or a
\* malformed body adds one to the receiver's error counter and leaves the
\* queue, the callbacks and scans_parsed alone.  The parser drops such a
\* telegram by returning no scan and raises nothing, so the receive loop never
\* reaches the handler that counts errors: the counter stays as it was.
C29_DropsCounted ==
    [][\A data \in DamagedDatagrams(packets_received + 1) :
          Receive(data)
          => /\ errors' = errors + 1
             /\ UNCHANGED <<data_queue, scans_parsed, delivered>>]_vars

\* the part of C29 the code keeps: a dropped telegram reaches neither the
\* queue nor a callback and is not counted as a parsed scan
DropsAreSilent ==
    [][\A data \in DamagedDatagrams(packets_received + 1) :
          Receive(data) => UNCHANGED <<data_queue, scans_parsed, delivered, errors>>]_vars

(***************************************************************************)
(* C27  The grid fields of a Scan (start angle, angular step, and the end  *)
(* angle derived from the point count) are those of the first 16-bit       *)
(* channel; a later channel that starts elsewhere does not fail the parse  *)
(* and does not change them.                                               *)
(* The code violates it: _parse_channel assigns the three fields for every *)
(* channel it parses, so the Scan carries the values of the last channel.  *)
(***************************************************************************)
C27_FirstChannelWins ==
    (IsScan(result) /\ params.nc >= 1)
        => /\ result.start_angle = params.start
           /\ result.angular_resolution = params.step
           /\ result.end_angle = params.start + (params.np - 1) * params.step

\* what the code does: with several channels the grid is the last channel's
LastChannelWins ==
    (IsScan(result) /\ params.nc >= 2 /\ ~params.rssi)
        => result.start_angle = params.start + params.skew

(***************************************************************************)
(* C28  A checksum-valid payload whose body is too short for the fields it *)
(* declares (fixed header, encoder block, channel count, channel header,   *)
(* or the N_p data values of a channel) is rejected: no Scan is returned   *)
(* and the parse counter is not incremented.                               *)
(* The code violates it: the loop over the N_p data values of a 16-bit     *)
(* channel stops silently where the body ends, and when the body ends on a *)
(* value boundary the Scan is returned with the points read so far and     *)
(* scan_count is incremented.                                              *)
(***************************************************************************)
C28_ShortBodyRejected ==
    (result # Pending /\ params.trunc > 0) => (result = None /\ scan_count = 0)

(***************************************************************************)
(* An evaluator constructed on a configuration file that was written by    *)
(* hand: its products list may hold an entry that is no product.          *)
(***************************************************************************)
MaxEntries == 3

\* an entry of the products list that is not a JSON object (a string, a
\* number, null): ProductConfig.from_dict raises on data.get
Malformed == [malformed |-> TRUE]

\* the entries of a document: the products 1 to 3 as save_config writes them,
\* and the malformed entry
DocumentEntries == {ProductToDict(ProductConfig(id, <<>>)) : id \in 1..3} \cup {Malformed}

Documents ==
    [active_product_id : {1, 3}, products : SeqsUpTo(DocumentEntries, MaxEntries)]

InitLoad ==
    /\ FramerIdle
    /\ IoIdle
    /\ ParserIdle
    /\ ThreadsIdle
    /\ EvalIdle
    /\ StoreAbsent
    /\ ZoneIdle
    /\ document \in Documents

RECURSIVE LoadEntries(_, _, _)
\* for p_data in data.get('products', []): self.products[product.id] = product,
\* up to the entry on which from_dict raises
LoadEntries(entries, prods, order) ==
    IF entries = <<>> THEN [products |-> prods, key_order |-> order, raised |-> FALSE]
    ELSE IF Head(entries) = Malformed
    THEN [products |-> prods, key_order |-> order, raised |-> TRUE]
    ELSE LoadEntries(Tail(entries),
                     (Head(entries).id :> ProductFromDict(Head(entries))) @@ prods,
                     IF Head(entries).id \in DOMAIN prods THEN order
                     ELSE Append(order, Head(entries).id))

\* MeasurementEvaluator(config_path) on an existing file: load_config clears
\* the products, loads the entries and then restores the active id; an
\* exception on the way ends the load where it is and makes it return False
LoadConfig ==
    /\ last = NoCall
    /\ \E r \in {LoadEntries(document.products, <<>>, <<>>)} :
           /\ products' = r.products
           /\ key_order' = r.key_order
           /\ active_product_id' = IF r.raised THEN active_product_id
                                   ELSE document.active_product_id
           /\ last' = Call("load_config", None, NoneId, IF r.raised THEN "false" ELSE "true")
    /\ UNCHANGED <<document, counterVars, notifyVars, framerVars, ioVars, parserVars,
                   threadVars, storeVars, zoneVars>>

NextLoad == LoadConfig

SpecLoad == InitLoad /\ [][NextLoad]_vars

\* the positions of the entries of a products list that are products
ValidAt(entries) == {i \in 1..Len(entries) : entries[i] # Malformed}

\* exactly one entry is no product and the others have distinct ids
OneOffending(entries) ==
    /\ Cardinality(ValidAt(entries)) = Len(entries) - 1
    /\ \A i, j \in ValidAt(entries) : entries[i].id = entries[j].id => i = j

\* C30: loading a document in which one product entry is invalid omits only
\* that entry: every valid entry, before or after it, is in the catalog
\* after the load, and the persisted active product id is restored.
\* The code violates it: the exception from_dict raises leaves the loop over
\* the entries, so the entries after the offending one are not loaded and
\* the assignment of the active id is not reached.
C30_OnlyOffendingOmitted ==
    (last.op = "load_config" /\ OneOffending(document.products))
        => /\ \A i \in ValidAt(document.products) :
                 /\ document.products[i].id \in DOMAIN products
                 /\ products[document.products[i].id] = ProductFromDict(document.products[i])
           /\ active_product_id = document.active_product_id

\* what the code does keep: the entries before the offending one are loaded
EntriesBeforeLoaded ==
    (last.op = "load_config" /\ OneOffending(document.products))
        => \A i \in ValidAt(document.products) :
              (\A j \in 1..i : document.products[j] # Malformed)
                  => document.products[i].id \in DOMAIN products

(***************************************************************************)
(* The EtherNet/IP server: connections made with create_connection, the    *)
(* input assembly refreshed with update_input_data, cyclic datagrams on    *)
(* the UDP endpoint and encapsulated requests on the TCP endpoint.  Time   *)
(* is counted in microseconds, the unit of the RPI.                        *)
(***************************************************************************)
\* EIPCommand.SEND_RR_DATA, EIPCommand.SEND_UNIT_DATA
SEND_RR_DATA == 111
SEND_UNIT_DATA == 112
\* CIPService.FORWARD_OPEN, CIPService.FORWARD_CLOSE
FORWARD_OPEN == 84
FORWARD_CLOSE == 78

\* the default rpi of create_connection, in microseconds
DefaultRpi == 10000

\* the clock advances by TickMicros at a time, up to MaxClock
TickMicros == 25000
MaxClock == 50000
MaxConnections == 2

\* struct.pack('<H', n), struct.pack('<I', n)
LE16(n) == <<n % 256, (n \div 256) % 256>>
LE32(n) == <<n % 256, (n \div 256) % 256, (n \div 65536) % 256, (n \div 16777216) % 256>>

\* struct.unpack('<H', b), struct.unpack('<I', b)
U16LE(b) == b[1] + 256 * b[2]
U32LE(b) == b[1] + 256 * (b[2] + 256 * (b[3] + 256 * b[4]))

\* LIDARInputAssembly()
NewInputAssembly ==
    [status |-> 0, product_id |-> 0, overall_result |-> 0, zone_count |-> 0,
     scan_counter |-> 0, good_count |-> 0, bad_count |-> 0, good_rate |-> 0,
     zone_measurements |-> <<0, 0, 0, 0>>, zone_results |-> <<0, 0, 0, 0>>,
     timestamp |-> 0, min_distance |-> 0, max_distance |-> 0]

\* an input assembly packed with the 32-bit fields most significant byte first
InputToBytesBigEndian(a) ==
    <<a.status, a.product_id, a.overall_result, a.zone_count>>
        \o BytesU32(a.scan_counter) \o BytesU32(a.good_count) \o BytesU32(a.bad_count)
        \o BytesU32(a.good_rate)
        \o Concat([i \in 1..4 |-> BytesU32(a.zone_measurements[i]) \o BytesU32(a.zone_results[i])])
        \o BytesU32(a.timestamp) \o BytesU32(a.min_distance) \o BytesU32(a.max_distance)

\* LIDARInputAssembly.to_bytes: struct.pack('<BBBB IIII IIIIIIII III', ...)
InputToBytes(a) ==
    <<a.status, a.product_id, a.overall_result, a.zone_count>>
        \o LE32(a.scan_counter) \o LE32(a.good_count) \o LE32(a.bad_count)
        \o LE32(a.good_rate)
        \o Concat([i \in 1..4 |-> LE32(a.zone_measurements[i]) \o LE32(a.zone_results[i])])
        \o LE32(a.timestamp) \o LE32(a.min_distance) \o LE32(a.max_distance)

\* LIDAROutputAssembly()
NewOutputAssembly ==
    [command |-> 0, product_id |-> 0, zone1_expected |-> 0, zone1_tolerance |-> 0,
     zone2_expected |-> 0, zone2_tolerance |-> 0]

\* data + b'\x00' * (20 - len(data)) for data shorter than 20 bytes
PadTo20(data) == IF Len(data) < 20 THEN data \o Zeros(20 - Len(data)) ELSE data

\* LIDAROutputAssembly.from_bytes: struct.unpack('<BBxx IIII', data[:20])
OutputFromBytes(data) ==
    [command |-> PadTo20(data)[1], product_id |-> PadTo20(data)[2],
     zone1_expected |-> U32LE(SubSeq(PadTo20(data), 5, 8)),
     zone1_tolerance |-> U32LE(SubSeq(PadTo20(data), 9, 12)),
     zone2_expected |-> U32LE(SubSeq(PadTo20(data), 13, 16)),
     zone2_tolerance |-> U32LE(SubSeq(PadTo20(data), 17, 20))]

\* EtherNetIPServer()
NewServer ==
    [connections |-> <<>>, connection_counter |-> 1,
     input_assembly |-> NewInputAssembly, output_assembly |-> NewOutputAssembly,
     assemblies |-> (100 :> Zeros(64)) @@ (101 :> Zeros(32)) @@ (102 :> Zeros(16)),
     on_output_received |-> FALSE]

CIPConnection(connection_id, addr, rpi, now) ==
    [connection_id |-> connection_id, originator_serial |-> 0, input_assembly |-> 100,
     output_assembly |-> 101, rpi |-> rpi, addr |-> addr, last_update |-> now]

\* what handle_implicit_io does to the server, what it returns, and the
\* assemblies it hands to the output callback
Handled(srv, response, outputs) == [server |-> srv, response |-> response, outputs |-> outputs]

\* the server after the output data of a cyclic datagram are stored
WithOutput(srv, output_data) ==
    [srv EXCEPT !.output_assembly = OutputFromBytes(output_data),
                !.assemblies = (101 :> output_data) @@ srv.assemblies]

\* the cyclic datagram with sequence count and connection id, and the output
\* assembly bytes after them
Cyclic(seq_count, conn_id, output_data) == LE16(seq_count) \o LE32(conn_id) \o output_data

\* a server that stores the output data and calls back before it looks the
\* connection up
HandleImplicitIoStoreFirst(srv, data, now) ==
    IF Len(data) < 6 THEN Handled(srv, None, <<>>)
    ELSE IF U32LE(SubSeq(data, 3, 6)) \notin DOMAIN srv.connections
    THEN Handled(WithOutput(srv, DropFirst(data, 6)), None,
                 <<OutputFromBytes(DropFirst(data, 6))>>)
    ELSE Handled(WithOutput(srv, DropFirst(data, 6)),
                 Cyclic(U16LE(SubSeq(data, 1, 2)), U32LE(SubSeq(data, 3, 6)),
                        srv.assemblies[100]),
                 <<OutputFromBytes(DropFirst(data, 6))>>)

\* handle_implicit_io(data, addr) at the time now
HandleImplicitIo(srv, data, now) ==
    IF Len(data) < 6 THEN Handled(srv, None, <<>>)
    ELSE IF U32LE(SubSeq(data, 3, 6)) \notin DOMAIN srv.connections
    THEN Handled(srv, None, <<>>)
    ELSE Handled(
        [(IF Len(data) > 6 THEN WithOutput(srv, DropFirst(data, 6)) ELSE srv)
            EXCEPT !.connections[U32LE(SubSeq(data, 3, 6))].last_update = now],
        Cyclic(U16LE(SubSeq(data, 1, 2)),
               srv.connections[U32LE(SubSeq(data, 3, 6))].connection_id,
               srv.assemblies[100]),
        IF Len(data) > 6 /\ srv.on_output_received
        THEN <<OutputFromBytes(DropFirst(data, 6))>> ELSE <<>>)

\* output assemblies the PLC sends: none, 2 bytes, the full 32 bytes
OutputData ==
    {<<>>, <<2, 3>>, <<1, 4, 0, 0>> \o LE32(1000) \o LE32(50) \o LE32(2000) \o LE32(50) \o Zeros(12)}

\* datagrams on the UDP port: cyclic datagrams for the connection ids 1, 2
\* and 9, and datagrams shorter than the 6-byte header
EipDatagrams ==
    {Cyclic(513, conn_id, output_data) : conn_id \in {1, 2, 9}, output_data \in OutputData}
        \cup {<<>>, <<1, 2, 1, 0, 0>>}

\* scan counters handed to update_input_data; NoneId for an argument left out
ScanCounters == {NoneId, 258, 16909060}

InitEip ==
    /\ FramerIdle
    /\ ParserIdle
    /\ ThreadsIdle
    /\ EvalIdle
    /\ DocumentAbsent
    /\ StoreAbsent
    /\ ZoneIdle
    /\ ReceiverIdle
    /\ WsIdle
    /\ eip_server = NewServer
    /\ eip_clock = 0
    /\ eip_io = NoRequestYet
    /\ eip_outputs = <<>>

eipRest == <<framerVars, parserVars, evalVars, threadVars, appVars, receiverVars, wsVars>>

\* create_connection(addr, rpi=rpi)
CreateConnection(rpi) ==
    /\ Cardinality(DOMAIN eip_server.connections) < MaxConnections
    /\ eip_server' =
           [eip_server EXCEPT
               !.connections = (eip_server.connection_counter
                                  :> CIPConnection(eip_server.connection_counter, "plc", rpi,
                                                   eip_clock)) @@ eip_server.connections,
               !.connection_counter = eip_server.connection_counter + 1]
    /\ eip_io' = [kind |-> "create_connection", data |-> <<>>, response |-> None]
    /\ eip_outputs' = <<>>
    /\ UNCHANGED <<eip_clock, eipRest>>

\* set_output_callback(callback)
SetOutputCallback ==
    /\ eip_server' = [eip_server EXCEPT !.on_output_received = TRUE]
    /\ eip_io' = [kind |-> "set_output_callback", data |-> <<>>, response |-> None]
    /\ eip_outputs' = <<>>
    /\ UNCHANGED <<eip_clock, eipRest>>

\* the input assembly after update_input_data(status=1, scan_counter=scan_counter)
UpdatedInput(a, scan_counter, now) ==
    [a EXCEPT !.status = 1,
              !.scan_counter = IF scan_counter = NoneId THEN a.scan_counter ELSE scan_counter,
              !.timestamp = now \div 1000]

\* update_input_data(status=1, scan_counter=scan_counter)
UpdateInputData(scan_counter) ==
    /\ eip_server' =
           [eip_server EXCEPT
               !.input_assembly = UpdatedInput(eip_server.input_assembly, scan_counter, eip_clock),
               !.assemblies = (100 :> InputToBytes(UpdatedInput(eip_server.input_assembly,
                                                                scan_counter, eip_clock)))
                                 @@ eip_server.assemblies]
    /\ eip_io' = [kind |-> "update_input_data", data |-> <<>>, response |-> None]
    /\ eip_outputs' = <<>>
    /\ UNCHANGED <<eip_clock, eipRest>>

\* EIPUDPProtocol.datagram_received(data, addr)
DatagramReceived(data) ==
    /\ \E r \in {HandleImplicitIo(eip_server, data, eip_clock)} :
           /\ eip_server' = r.server
           /\ eip_io' = [kind |-> "datagram", data |-> data, response |-> r.response]
           /\ eip_outputs' = r.outputs
    /\ UNCHANGED <<eip_clock, eipRest>>

\* _process_encapsulation for a SendRRData or SendUnitData request, whose
\* CIP message (a forward-open, a forward-close) the handlers do not read
ProcessEncapsulation(command, service) ==
    /\ eip_io' = [kind |-> "encapsulation", data |-> <<command, service>>, response |-> None]
    /\ eip_outputs' = <<>>
    /\ UNCHANGED <<eip_server, eip_clock, eipRest>>

\* time passes
Tick ==
    /\ eip_clock < MaxClock
    /\ eip_clock' = eip_clock + TickMicros
    /\ UNCHANGED <<eip_server, eip_io, eip_outputs, eipRest>>

NextEip ==
    \/ CreateConnection(DefaultRpi)
    \/ SetOutputCallback
    \/ \E scan_counter \in ScanCounters : UpdateInputData(scan_counter)
    \/ \E data \in EipDatagrams : DatagramReceived(data)
    \/ \E command \in {SEND_RR_DATA, SEND_UNIT_DATA}, service \in {FORWARD_OPEN, FORWARD_CLOSE} :
           ProcessEncapsulation(command, service)
    \/ Tick

SpecEip == InitEip /\ [][NextEip]_vars

\* the connection id a cyclic datagram carries
ConnIdOf(data) == U32LE(SubSeq(data, 3, 6))

\* the datagram is shorter than the header or names no connection of the server
Unknown(data) == Len(data) < 6 \/ ConnIdOf(data) \notin DOMAIN eip_server.connections

\* the connection has been idle for more than four times its RPI
Expired(conn) == eip_clock - conn.last_update > 4 * conn.rpi

(***************************************************************************)
(* C23  Connection lifecycle: a connection becomes CLOSED on a             *)
(* forward-close and when it has been idle for more than 4 x RPI; an       *)
(* expired connection is pruned when the next datagram is handled, and     *)
(* the datagrams carrying its id are dropped from then on.                 *)
(* The code violates it: nothing ever removes an entry of _connections.    *)
(* The handlers of SendRRData and SendUnitData return None without reading *)
(* the request, and handle_implicit_io answers a datagram for a connection *)
(* whatever the age of its last_update.                                    *)
(***************************************************************************)
C23_ConnectionLifecycle ==
    [][/\ \A command \in {SEND_RR_DATA, SEND_UNIT_DATA} :
             (ProcessEncapsulation(command, FORWARD_CLOSE) /\ eip_server.connections # <<>>)
                 => DOMAIN eip_server'.connections # DOMAIN eip_server.connections
       /\ \A data \in EipDatagrams :
             (DatagramReceived(data) /\ ~Unknown(data)
                  /\ Expired(eip_server.connections[ConnIdOf(data)]))
                 => /\ eip_io'.response = None
                    /\ ConnIdOf(data) \notin DOMAIN eip_server'.connections]_vars

\* the idle half of C23 alone: a datagram for an expired connection is dropped
ExpiredIsDropped ==
    [][\A data \in EipDatagrams :
          (DatagramReceived(data) /\ ~Unknown(data)
               /\ Expired(eip_server.connections[ConnIdOf(data)]))
              => eip_io'.response = None]_vars

\* the forward-close half of C23 alone
ForwardCloseCloses ==
    [][\A command \in {SEND_RR_DATA, SEND_UNIT_DATA} :
          (ProcessEncapsulation(command, FORWARD_CLOSE) /\ eip_server.connections # <<>>)
              => DOMAIN eip_server'.connections # DOMAIN eip_server.connections]_vars

\* C24: a cyclic datagram that is shorter than the 6-byte header, or whose
\* connection id is not a connection of the server, gets no response and
\* changes nothing in the server: no last_update, not the stored output
\* assembly, and the output callback is not invoked.
C24_UnknownDropped ==
    [][\A data \in EipDatagrams :
          (DatagramReceived(data) /\ Unknown(data))
              => /\ eip_io'.response = None
                 /\ eip_server' = eip_server
                 /\ eip_outputs' = <<>>]_vars

\* a datagram with a full output assembly for the id 9 was dropped by a server
\* that has connection 1 and an output callback, at a later time than the
\* connection's last update
C24_Witness ==
    /\ eip_io.kind = "datagram"
    /\ Len(eip_io.data) = 38
    /\ ConnIdOf(eip_io.data) = 9
    /\ eip_io.response = None
    /\ eip_server.on_output_received
    /\ 1 \in DOMAIN eip_server.connections
    /\ eip_clock > eip_server.connections[1].last_update
    /\ eip_server.assemblies[101] = Zeros(32)

\* C25: a cyclic datagram for a connection of the server is answered with
\* one response: the sequence count and the connection id of the request,
\* then the 64 bytes of the input assembly, whose bytes 4..7 are the scan
\* counter last handed to update_input_data, least significant byte first;
\* the connection's last_update is set, and the output callback, if one is
\* registered, is invoked once with the decoded assembly when the datagram
\* carries assembly bytes.
C25_CyclicResponse ==
    [][\A data \in EipDatagrams :
          (DatagramReceived(data) /\ ~Unknown(data))
              => /\ eip_io'.response # None
                 /\ Len(eip_io'.response) = 6 + 64
                 /\ SubSeq(eip_io'.response, 1, 6) = SubSeq(data, 1, 6)
                 /\ SubSeq(eip_io'.response, 7, 70) = eip_server.assemblies[100]
                 /\ U32LE(SubSeq(eip_io'.response, 11, 14)) = eip_server.input_assembly.scan_counter
                 /\ eip_server'.connections[ConnIdOf(data)].last_update = eip_clock
                 /\ eip_outputs' = IF Len(data) > 6 /\ eip_server.on_output_received
                                   THEN <<OutputFromBytes(DropFirst(data, 6))>> ELSE <<>>]_vars

\* the scan counter 0x01020304 was supplied, and a datagram with a full
\* output assembly for connection 2 was answered and handed to the callback
C25_Witness ==
    /\ eip_io.kind = "datagram"
    /\ Len(eip_io.data) = 38
    /\ ConnIdOf(eip_io.data) = 2
    /\ eip_io.response # None
    /\ eip_server.input_assembly.scan_counter = 16909060
    /\ SubSeq(eip_io.response, 1, 14) = <<1, 2, 2, 0, 0, 0, 1, 0, 0, 0, 4, 3, 2, 1>>
    /\ Len(eip_outputs) = 1
    /\ eip_outputs[1].command = 1 /\ eip_outputs[1].product_id = 4
    /\ eip_outputs[1].zone1_expected = 1000 /\ eip_outputs[1].zone2_tolerance = 50

(***************************************************************************)
(* The dashboard broadcast: _broadcast_scan loops over ws_clients and      *)
(* awaits one send per client; while a send is awaited the event loop runs *)
(* the WebSocket handlers of clients that connect or disconnect.           *)
(***************************************************************************)
\* AppConfig.max_clients
MaxClients == 10

MaxBroadcasts == 2

\* the WebSocket connections that may exist
WsConnections == {"a", "b", "c"}

InitBroadcast ==
    /\ FramerIdle
    /\ ParserIdle
    /\ ThreadsIdle
    /\ EvalIdle
    /\ DocumentAbsent
    /\ StoreAbsent
    /\ ZoneIdle
    /\ ReceiverIdle
    /\ EipAbsent
    /\ WsIdle

wsRest == <<framerVars, parserVars, evalVars, threadVars, appVars, receiverVars, eipVars>>

\* _handle_websocket up to self.ws_clients.add(ws).  During a loop over the
\* set the new entry lands before or after the position of the iterator.
Connect(ws) ==
    /\ ws \notin ws_clients \cup ws_closed
    /\ Cardinality(ws_clients) < MaxClients
    /\ ws_clients' = ws_clients \cup {ws}
    /\ \E seen \in BOOLEAN :
           fanout' = IF fanout.state = "iterating" /\ seen
                     THEN [fanout EXCEPT !.pending = fanout.pending \cup {ws}]
                     ELSE fanout
    /\ UNCHANGED <<ws_stats, ws_closed, wsRest>>

\* _handle_websocket from the end of the message loop: self.ws_clients.discard(ws)
Disconnect(ws) ==
    /\ ws \in ws_clients
    /\ ws_clients' = ws_clients \ {ws}
    /\ ws_closed' = ws_closed \cup {ws}
    /\ UNCHANGED <<fanout, ws_stats, wsRest>>

\* _broadcast_scan up to the first send: it returns when there is no client
BroadcastScan ==
    /\ fanout.state = "idle"
    /\ fanout.round < MaxBroadcasts
    /\ fanout' = IF ws_clients = {} THEN NoFanout(fanout.round + 1)
                 ELSE [state |-> "iterating", round |-> fanout.round + 1,
                       size |-> Cardinality(ws_clients), start |-> ws_clients,
                       pending |-> ws_clients, dead |-> {}, received |-> {},
                       raised |-> FALSE]
    /\ UNCHANGED <<ws_clients, ws_stats, ws_closed, wsRest>>

\* the iterator yields ws and await ws.send_str(message) returns (ok) or raises
SendTo(ws, ok) ==
    /\ fanout.state = "iterating"
    /\ Cardinality(ws_clients) = fanout.size
    /\ ws \in fanout.pending \cap ws_clients
    /\ fanout' = [fanout EXCEPT !.pending = fanout.pending \ {ws},
                                !.received = IF ok THEN fanout.received \cup {ws}
                                             ELSE fanout.received,
                                !.dead = IF ok THEN fanout.dead ELSE fanout.dead \cup {ws}]
    /\ ws_stats' = [ws_stats EXCEPT !.ws_messages_sent =
                                        IF ok THEN ws_stats.ws_messages_sent + 1
                                        ELSE ws_stats.ws_messages_sent]
    /\ UNCHANGED <<ws_clients, ws_closed, wsRest>>

\* the iterator finds the set with another size than when the loop began:
\* RuntimeError, which _broadcast_scan does not catch
IterationRaises ==
    /\ fanout.state = "iterating"
    /\ Cardinality(ws_clients) # fanout.size
    /\ fanout' = [fanout EXCEPT !.state = "idle", !.raised = TRUE]
    /\ UNCHANGED <<ws_clients, ws_stats, ws_closed, wsRest>>

\* the iterator is exhausted: self.ws_clients -= dead_clients
FanoutEnd ==
    /\ fanout.state = "iterating"
    /\ Cardinality(ws_clients) = fanout.size
    /\ fanout.pending \cap ws_clients = {}
    /\ ws_clients' = ws_clients \ fanout.dead
    /\ fanout' = [fanout EXCEPT !.state = "idle"]
    /\ ws_stats' = [ws_stats EXCEPT !.scans_sent = ws_stats.scans_sent + 1]
    /\ UNCHANGED <<ws_closed, wsRest>>

NextBroadcast ==
    \/ \E ws \in WsConnections : Connect(ws)
    \/ \E ws \in WsConnections : Disconnect(ws)
    \/ BroadcastScan
    \/ \E ws \in WsConnections, ok \in BOOLEAN : SendTo(ws, ok)
    \/ IterationRaises
    \/ FanoutEnd

SpecBroadcast == InitBroadcast /\ [][NextBroadcast]_vars

(***************************************************************************)
(* C26  While a fan-out over the subscriber set is in progress the set is  *)
(* not modified, neither by the fan-out nor by a subscriber that connects  *)
(* or disconnects while a send is awaited; the subscribers whose send      *)
(* failed are removed when the iteration has finished, and every other     *)
(* subscriber present at the start has then received the scan.             *)
(* The code violates it: the loop runs over ws_clients itself, and the     *)
(* WebSocket handlers add to and discard from that set while a send is     *)
(* awaited; the iterator then raises, the fan-out ends without the         *)
(* remaining sends and without removing the dead clients.                  *)
(***************************************************************************)
C26_FanoutIsolation ==
    [][/\ (fanout.state = "iterating" /\ fanout'.state = "iterating")
              => ws_clients' = ws_clients
       /\ (fanout.state = "iterating" /\ fanout'.state = "idle")
              => /\ ws_clients' = ws_clients \ fanout.dead
                 /\ fanout'.received = fanout.start \ fanout.dead]_vars

\* what the code keeps: the fan-out itself leaves the set alone until its
\* iteration has ended
FanoutItselfWaits ==
    [][\A ws \in WsConnections, ok \in BOOLEAN : SendTo(ws, ok) => ws_clients' = ws_clients]_vars

(***************************************************************************)
(* The evaluator with products whose zones are switched off.  A zone keeps *)
(* what its last evaluation left in it (measurement, verdict, point count) *)
(* when it is disabled afterwards.                                         *)
(***************************************************************************)

\* a zone that was evaluated BAD on 7 points and then got enabled = False
SwitchedOff(zone) ==
    [zone EXCEPT !.enabled = FALSE, !.last_measurement = Frac(1200, 1),
                 !.last_result = BAD, !.point_count = 7]

\* product 1 with both zones disabled, product 2 without zones, product 3
\* with zone 1 disabled and zone 2 enabled
SkipCatalogs ==
    {(1 :> ProductConfig(1, <<SwitchedOff(ZoneA(um, orj)), SwitchedOff(ZoneB(1))>>))
       @@ (2 :> ProductConfig(2, <<>>))
       @@ (3 :> ProductConfig(3, <<SwitchedOff(ZoneA(um, orj)), ZoneB(mb)>>)) :
        um \in BOOLEAN, orj \in BOOLEAN, mb \in {0, 1}}

InitSkip ==
    /\ FramerIdle
    /\ IoIdle
    /\ ParserIdle
    /\ ThreadsIdle
    /\ DocumentAbsent
    /\ StoreAbsent
    /\ ZoneIdle
    /\ products \in SkipCatalogs
    /\ active_product_id \in {1, 2, 3}
    /\ evaluation_count = 0 /\ good_count = 0 /\ bad_count = 0
    /\ last = NoCall
    /\ callbacks \in CallbackLists
    /\ notified = <<>>
    /\ key_order = <<1, 2, 3>>

NextSkip ==
    \/ \E scan_data \in Scans : EvaluateScan(scan_data)
    \/ ResetStatistics
    \/ \E product_id \in 1..3 : SetActiveProduct(product_id)

SpecSkip == InitSkip /\ [][NextSkip]_vars

\* no zone of the product is enabled (the product has no zones included)
NoEnabledZone(product) ==
    \A i \in 1..Len(product.zones) : ~product.zones[i].enabled

NanScans ==
    {[points |-> [i \in 1..k |-> Point(0, 0, 1000)]
                 \o (IF nz THEN <<Point(3, 0, NaN)>> ELSE <<>>)
                 \o [i \in 1..j |-> Point(1, 0, 1010)]
                 \o (IF other = 0 THEN <<>> ELSE <<Point(2, 200000, other)>>)] :
        k \in 0..2, nz \in BOOLEAN, j \in 0..2, other \in {0, 2000, NaN}}

InitNan == EvalLoaded({1, 2}, CallbackLists)

NextNan ==
    \/ \E scan_data \in NanScans : EvaluateScan(scan_data)
    \/ \E product_id \in 1..2 : SetActiveProduct(product_id)

SpecNan == InitNan /\ [][NextNan]_vars

\* the distances of the points of the evaluated scan with layer in
\* zone.layers, start_angle <= angle_h <= end_angle and
\* min_valid <= distance <= max_valid
Qualifying(zone) ==
    LET kept == SelectSeq(last.scan_data.points, LAMBDA point :
                    /\ point.layer \in zone.layers
                    /\ zone.start_angle <= point.angle_h /\ point.angle_h <= zone.end_angle
                    /\ point.distance # NaN
                    /\ zone.min_valid_distance <= point.distance
                    /\ point.distance <= zone.max_valid_distance)
    IN  [i \in 1..Len(kept) |-> kept[i].distance]

\* the zone has too few qualifying points, before or after outlier rejection
Insufficient(zone) ==
    \/ Len(Qualifying(zone)) < zone.min_points
    \/ /\ zone.outlier_rejection /\ Len(Qualifying(zone)) > 3
       /\ Len(RejectOutliers(Qualifying(zone), zone.outlier_std_factor)) < zone.min_points

(***************************************************************************)
(* C32: insufficient evidence.  After an evaluate, every enabled zone of   *)
(* the product whose qualifying points (layer in zone.layers, angle and    *)
(* distance within the inclusive bounds) are fewer than min_points, or     *)
(* fewer than min_points after outlier rejection, has verdict NO_TARGET    *)
(* and measurement 0; and a zone with at most 3 qualifying points, enough  *)
(* of them, reports the statistic of all of them (no rejection).           *)
(* The code violates it: a point whose distance is NaN fails neither       *)
(* "distance < min_valid" nor "distance > max_valid" and is collected, so  *)
(* that a zone without a qualifying point gets BAD and measurement NaN.    *)
(***************************************************************************)
C32_InsufficientEvidence ==
    Returned =>
        \A zone \in EvaluatedZones :
            zone.enabled =>
                /\ Insufficient(zone) =>
                       zone.last_result = NO_TARGET /\ zone.last_measurement = Frac(0, 1)
                /\ (~Insufficient(zone) /\ Len(Qualifying(zone)) \in 1..3) =>
                       zone.last_measurement
                           = IF zone.use_median THEN Median(Qualifying(zone))
                             ELSE Mean(Qualifying(zone))

\* the same for the scans without a NaN distance, which the code satisfies
InsufficientEvidenceNumbers ==
    (/\ Returned
     /\ \A i \in 1..Len(last.scan_data.points) : last.scan_data.points[i].distance # NaN)
        => C32_InsufficientEvidence

\* zone 1 was evaluated on 4 points one of which is NaN with outlier
\* rejection on: the rejection keeps no point and the zone gets NO_TARGET
NanRejectsAll ==
    ~(/\ Returned /\ last.product = 1
      /\ products[1].zones[1].outlier_rejection
      /\ products[1].zones[1].point_count = 4
      /\ Len(Qualifying(products[1].zones[1])) = 3
      /\ products[1].zones[1].last_result # NO_TARGET)

(***************************************************************************)
(* The receiver with a sensor_ip filter.  Datagrams reach the port from    *)
(* the sensor and from another host; recvfrom returns them in the order    *)
(* they arrived, with the address of the sender.                           *)
(***************************************************************************)
\* datagrams sent to the port in one run
MaxInbound == 3

SensorAddr == "192.168.0.1"
OtherAddr == "192.168.0.7"

\* the sensor's first scan telegram in one datagram, or cut after 10 bytes
\* and sent in two
FirstPart == SubSeq(GoodDatagram(1), 1, 10)
SecondPart == SubSeq(GoodDatagram(1), 11, Len(GoodDatagram(1)))

Datagrams ==
    [addr : {SensorAddr, OtherAddr}, data : {GoodDatagram(1), FirstPart, SecondPart}]

InitFilter ==
    /\ FramerIdle
    /\ ParserIdle
    /\ EvalIdle
    /\ DocumentAbsent
    /\ StoreAbsent
    /\ ZoneIdle
    /\ EipAbsent
    /\ WsIdle
    /\ data_queue = <<>> /\ delivered = <<>> /\ taken = <<>>
    /\ packets_received = 0 /\ bytes_received = 0 /\ scans_parsed = 0 /\ errors = 0
    /\ sensor_ip \in {"", SensorAddr}
    /\ inbound \in [1..MaxInbound -> Datagrams]
    /\ pc = [t \in {"receiver"} |-> "recv"]
    /\ lock = "free"
    /\ store_lock = "free"
    /\ local = <<>>

\* mutant of the pass: the datagram is counted before its sender is looked at
RecvfromCountFirst ==
    /\ pc["receiver"] = "recv"
    /\ inbound # <<>>
    /\ inbound' = Tail(inbound)
    /\ IF sensor_ip # "" /\ Head(inbound).addr # sensor_ip
       THEN /\ packets_received' = packets_received + 1
            /\ bytes_received' = bytes_received + Len(Head(inbound).data)
            /\ UNCHANGED <<data_queue, scans_parsed, errors, delivered, taken,
                           sensor_ip, threadVars, framerVars, parserVars, evalVars, appVars,
                           eipVars, wsVars>>
       ELSE ReceivePass(Head(inbound).data)

\* data, addr = self.socket.recvfrom(...) and the pass for it: a datagram of
\* another sender than a configured sensor_ip ends the pass at once
Recvfrom ==
    /\ pc["receiver"] = "recv"
    /\ inbound # <<>>
    /\ inbound' = Tail(inbound)
    /\ IF sensor_ip # "" /\ Head(inbound).addr # sensor_ip
       THEN UNCHANGED <<data_queue, packets_received, bytes_received, scans_parsed, errors,
                        delivered, taken, sensor_ip, threadVars, framerVars, parserVars,
                        evalVars, appVars, eipVars, wsVars>>
       ELSE ReceivePass(Head(inbound).data)

NextFilter ==
    \/ Recvfrom
    \/ GetScan

SpecFilter == InitFilter /\ [][NextFilter]_vars

\* the pass for a datagram that a configured sensor_ip does not let through
ForeignPass ==
    /\ inbound # <<>>
    /\ inbound' = Tail(inbound)
    /\ sensor_ip # ""
    /\ Head(inbound).addr # sensor_ip

(***************************************************************************)
(* C33: source filter.  With a sensor IP configured, the pass for a        *)
(* datagram from any other address leaves the framer's buffer, the packet, *)
(* byte and scan counters and the queue as they are and hands no scan to   *)
(* the callbacks.                                                          *)
(***************************************************************************)
C33_SourceFilter ==
    [][ForeignPass => UNCHANGED <<buffer, packets_received, bytes_received, scans_parsed,
                                  scan_count, data_queue, delivered, errors>>]_vars

\* with the filter on, three datagrams were received, two of them counted:
\* the two parts of the sensor's telegram, which gave one scan; the third
\* came from the other host
C33_Witness ==
    /\ sensor_ip = SensorAddr
    /\ inbound = <<>>
    /\ packets_received = 2 /\ bytes_received = Len(GoodDatagram(1))
    /\ scans_parsed = 1 /\ Len(delivered) = 1 /\ buffer = <<>>

(***************************************************************************)
(* The framer after a corrupted header.  The buffer holds an STX and a     *)
(* length field that no telegram follows (the rest was lost); then the     *)
(* sensor's scan telegrams arrive, numbered from 1, one per feed().        *)
(***************************************************************************)
\* scan telegrams fed after the corrupted header
MaxAfter == 3
\* the largest of the small lengths the corrupted header declares
MaxCorruptLen == 70
\* a very large declared length (16 MiB - 1)
HugeLen == 16777215

CorruptLens == 0..MaxCorruptLen \cup {HugeLen}

\* the bytes of a header: STX and the length field
HeaderLen == 8

InitResync ==
    /\ IoIdle
    /\ ParserIdle
    /\ EvalIdle
    /\ ThreadsIdle
    /\ DocumentAbsent
    /\ StoreAbsent
    /\ ZoneIdle
    /\ stream \in {STX \o BytesU32(n) \o Concat([i \in 1..MaxAfter |-> GoodDatagram(i)]) :
                      n \in CorruptLens}
    /\ pos = 0
    /\ buffer = <<>>
    /\ emitted = <<>>
    /\ scans = <<>>
    /\ calls = 0
    /\ scan_count = 0

\* feed() of the corrupted header, then of one telegram at a time
FeedNext == Feed(IF pos = 0 THEN HeaderLen ELSE Len(GoodDatagram(1)))

NextResync == FeedNext

SpecResync == InitResync /\ [][NextResync]_vars

\* the scan telegrams fed so far
Fed == IF pos = 0 THEN 0 ELSE (pos - HeaderLen) \div Len(GoodDatagram(1))

\* b occurs in a as a run of consecutive bytes
Holds(a, b) == \E i \in 0..(Len(a) - Len(b)) : SubSeq(a, i + 1, i + Len(b)) = b

\* telegram n has been fed, no scan numbered n was returned, and the buffer
\* does not hold the telegram any more: no later feed() can return it
Lost(n) ==
    /\ n <= Fed
    /\ \A i \in 1..Len(scans) : scans[i].scan_number # n
    /\ ~Holds(buffer, GoodDatagram(n))

(***************************************************************************)
(* C34: resynchronization.  Whatever header was fed before, a complete     *)
(* checksum-valid scan telegram that is fed afterwards is returned by the  *)
(* framer, at once or by a later feed(): it is never given up.             *)
(* The code violates it: the framer takes the bytes after the corrupted    *)
(* header as the payload the header declares, valid telegrams included,    *)
(* and drops them when the byte after them equals their XOR.               *)
(***************************************************************************)
C34_Resynchronizes == \A n \in 1..MaxAfter : ~Lost(n)

\* with the very large length declared the framer returns nothing: it keeps
\* every telegram in its buffer
HugeLenWithholds ==
    (stream[6] = 255 /\ pos = Len(stream)) =>
        (scans = <<>> /\ Len(buffer) = Len(stream))

(***************************************************************************)
(* The receiver with a consumer thread that calls get_scan() in a loop.    *)
(* The consumer runs at any point of the receive loop, between the         *)
(* queue.Full of put_nowait() and the get_nowait() that follows included.  *)
(***************************************************************************)
\* scans the consumer takes in one run
MaxTaken == 101

NextConsumer ==
    \/ packets_received < MaxPackets /\ Receive(GoodDatagram(packets_received + 1))
    \/ DropOldest
    \/ Late /\ TakeScan(MaxTaken)

SpecConsumer == InitReceiver /\ [][NextConsumer]_vars

(***************************************************************************)
(* C40: recency under a concurrent consumer.  The queue never holds more   *)
(* than its capacity, and the scan for which put_nowait() raised           *)
(* queue.Full is in the queue, as its newest element, when the receive     *)
(* loop goes on.                                                           *)
(* The code violates it: when the consumer empties the queue between the   *)
(* queue.Full and get_nowait(), get_nowait() raises queue.Empty, the bare  *)
(* except passes over it and the new scan is not put.                      *)
(***************************************************************************)
C40_NewScanQueued ==
    [][(pc["receiver"] = "full" /\ local' # local)
       => /\ data_queue' # <<>>
          /\ data_queue'[Len(data_queue')] = Head(local)
          /\ Len(data_queue') <= QueueMaxsize]_vars

\* the queue never exceeds its capacity, the consumer running or not
QueueBounded == Len(data_queue) <= QueueMaxsize

\* as long as the consumer leaves one scan in the queue the new scan is put
NewScanQueuedUnlessEmptied ==
    [][(pc["receiver"] = "full" /\ local' # local /\ data_queue # <<>>)
       => data_queue'[Len(data_queue')] = Head(local)]_vars

(***************************************************************************)
(* The catalog under two threads that call add_product, remove_product and *)
(* set_active_product (the HTTP handlers on the event loop and the         *)
(* control-register callback on a fieldbus client thread), starting from   *)
(* the empty catalog.  add_product and remove_product take the evaluator's *)
(* lock; set_active_product and save_config take none.  A thread switch    *)
(* can happen between any two statements.                                  *)
(***************************************************************************)
ApiThreads == {"t1", "t2"}

\* the ids callers pass
ApiIds == 1..2

\* the locals of a call: its argument, and the data save_config has gathered
ApiLocal(product_id, data) == [product_id |-> product_id, data |-> data]

InitApi ==
    /\ FramerIdle
    /\ IoIdle
    /\ ParserIdle
    /\ EvalIdle
    /\ DocumentAbsent
    /\ StoreAbsent
    /\ ZoneIdle
    /\ pc = [t \in ApiThreads |-> "idle"]
    /\ lock = "free"
    /\ store_lock = "free"
    /\ local = [t \in ApiThreads |-> ApiLocal(NoneId, None)]

apiRest == <<counterVars, last, callbacks, notified, framerVars, ioVars, parserVars,
             storeVars, zoneVars>>

\* add_product(product): with self._lock
AddLock(t, product_id) ==
    /\ pc[t] = "idle"
    /\ lock = "free"
    /\ lock' = t /\ UNCHANGED store_lock
    /\ pc' = [pc EXCEPT ![t] = "add_store"]
    /\ local' = [local EXCEPT ![t] = ApiLocal(product_id, None)]
    /\ UNCHANGED <<products, key_order, active_product_id, document, apiRest>>

\* self.products[product.id] = product
AddStore(t) ==
    /\ pc[t] = "add_store"
    /\ products' = (local[t].product_id :> ProductConfig(local[t].product_id, <<>>)) @@ products
    /\ key_order' = IF local[t].product_id \in DOMAIN products THEN key_order
                    ELSE Append(key_order, local[t].product_id)
    /\ pc' = [pc EXCEPT ![t] = "add_active"]
    /\ UNCHANGED <<lock, store_lock, local, active_product_id, document, apiRest>>

\* if self.active_product_id is None: self.active_product_id = product.id,
\* and the end of the with block
AddActive(t) ==
    /\ pc[t] = "add_active"
    /\ active_product_id' = IF active_product_id = NoneId THEN local[t].product_id
                            ELSE active_product_id
    /\ lock' = "free" /\ UNCHANGED store_lock
    /\ pc' = [pc EXCEPT ![t] = "save_gather"]
    /\ UNCHANGED <<local, products, key_order, document, apiRest>>

\* remove_product(product_id): with self._lock
RemoveLock(t, product_id) ==
    /\ pc[t] = "idle"
    /\ lock = "free"
    /\ lock' = t /\ UNCHANGED store_lock
    /\ pc' = [pc EXCEPT ![t] = "remove_del"]
    /\ local' = [local EXCEPT ![t] = ApiLocal(product_id, None)]
    /\ UNCHANGED <<products, key_order, active_product_id, document, apiRest>>

\* if product_id in self.products: del ..., the active id moves to the first
\* remaining key if it was product_id; otherwise the with block ends
RemoveDelete(t) ==
    /\ pc[t] = "remove_del"
    /\ IF local[t].product_id \in DOMAIN products
       THEN /\ products' = [id \in DOMAIN products \ {local[t].product_id} |-> products[id]]
            /\ key_order' = SelectSeq(key_order, LAMBDA id : id # local[t].product_id)
            /\ active_product_id' =
                   IF active_product_id = local[t].product_id
                   THEN IF key_order' = <<>> THEN NoneId ELSE Head(key_order')
                   ELSE active_product_id
            /\ pc' = [pc EXCEPT ![t] = "save_gather"]
            /\ UNCHANGED <<lock, store_lock>>
       ELSE /\ lock' = "free" /\ UNCHANGED store_lock
            /\ pc' = [pc EXCEPT ![t] = "idle"]
            /\ UNCHANGED <<products, key_order, active_product_id>>
    /\ UNCHANGED <<local, document, apiRest>>

\* save_config: data = {'active_product_id': ..., 'products': [...]}
SaveGather(t) ==
    /\ pc[t] = "save_gather"
    /\ local' = [local EXCEPT ![t].data = SavedDocument(active_product_id, products, key_order)]
    /\ pc' = [pc EXCEPT ![t] = "save_write"]
    /\ UNCHANGED <<lock, store_lock, products, key_order, active_product_id, document, apiRest>>

\* save_config: json.dump(data, f), and the return of the call (remove_product
\* leaves its with block)
SaveWrite(t) ==
    /\ pc[t] = "save_write"
    /\ document' = local[t].data
    /\ lock' = IF lock = t THEN "free" ELSE lock
    /\ UNCHANGED store_lock
    /\ pc' = [pc EXCEPT ![t] = "idle"]
    /\ local' = [local EXCEPT ![t] = ApiLocal(NoneId, None)]
    /\ UNCHANGED <<products, key_order, active_product_id, apiRest>>

\* set_active_product(product_id): if product_id in self.products
\* (a call with another id returns False and changes nothing)
SetActiveCheck(t, product_id) ==
    /\ pc[t] = "idle"
    /\ product_id \in DOMAIN products
    /\ pc' = [pc EXCEPT ![t] = "set_assign"]
    /\ local' = [local EXCEPT ![t] = ApiLocal(product_id, None)]
    /\ UNCHANGED <<lock, store_lock, products, key_order, active_product_id, document, apiRest>>

\* self.active_product_id = product_id
SetActiveAssign(t) ==
    /\ pc[t] = "set_assign"
    /\ active_product_id' = local[t].product_id
    /\ pc' = [pc EXCEPT ![t] = "idle"]
    /\ local' = [local EXCEPT ![t] = ApiLocal(NoneId, None)]
    /\ UNCHANGED <<lock, store_lock, products, key_order, document, apiRest>>

NextApi ==
    \E t \in ApiThreads :
        \/ \E product_id \in ApiIds : AddLock(t, product_id)
        \/ AddStore(t)
        \/ AddActive(t)
        \/ \E product_id \in ApiIds : RemoveLock(t, product_id)
        \/ RemoveDelete(t)
        \/ SaveGather(t)
        \/ SaveWrite(t)
        \/ \E product_id \in ApiIds : SetActiveCheck(t, product_id)
        \/ SetActiveAssign(t)

SpecApi == InitApi /\ [][NextApi]_vars

(***************************************************************************)
(* C35: active-product validity.  Starting from the empty catalog, under   *)
(* any interleaving of add_product, remove_product and set_active_product  *)
(* the active-product id is absent or the id of a product in the catalog.  *)
(* The code violates it: set_active_product tests and assigns without the  *)
(* lock, and a remove_product between its test and its assignment leaves   *)
(* the id of the removed product active.                                   *)
(***************************************************************************)
C35_ActiveValid == active_product_id = NoneId \/ active_product_id \in DOMAIN products

\* the removal itself is as claimed: when the active product is removed the
\* first remaining product becomes active, or none
RemovalReassigns ==
    [][\A t \in ApiThreads :
          (/\ pc[t] = "remove_del" /\ pc'[t] = "save_gather"
           /\ active_product_id = local[t].product_id)
          => /\ active_product_id' # local[t].product_id
             /\ IF DOMAIN products' = {} THEN active_product_id' = NoneId
                ELSE active_product_id' \in DOMAIN products']_vars

\* every call has returned
ApiQuiescent == \A t \in ApiThreads : pc[t] = "idle"

(***************************************************************************)
(* C36: the persisted document tracks memory.  Once every concurrent       *)
(* add_product and remove_product has returned, the document lists exactly *)
(* the products of the catalog.                                            *)
(* The code violates it: add_product calls save_config after releasing     *)
(* the lock, and save_config gathers its data and writes the file in two   *)
(* steps, so that a save that gathered first can write last.               *)
(***************************************************************************)
C36_DocumentTracksMemory ==
    (ApiQuiescent /\ document # None)
        => document.products = SavedDocument(active_product_id, products, key_order).products

(***************************************************************************)
(* The two locks.  The event loop evaluates scans: evaluate_scan takes the *)
(* evaluator's lock for the zone loop and the counters and calls the       *)
(* result callbacks afterwards; the application's callback publishes the   *)
(* verdict (update_from_product, under the register store's lock), an      *)
(* "edit" callback calls add_product or remove_product for product 2.  A   *)
(* fieldbus client thread writes the control registers (function code      *)
(* 0x06): the control callback first, set_holding_register after it.       *)
(***************************************************************************)
LockThreads == {"loop", "client"}

\* one point in zone 2, within tolerance
LockScans == {[points |-> <<Point(0, 200000, 2000)>>]}

\* the control-register writes of the client: reset the statistics, make
\* product 2 the active one
ControlWrites == {<<CONTROL_BASE, 1>>, <<CONTROL_BASE + 1, 2>>}

\* evaluations between two resets of the statistics
MaxLockEvals == 1

InitLocks ==
    /\ FramerIdle
    /\ IoIdle
    /\ ParserIdle
    /\ ZoneIdle
    /\ DocumentAbsent
    /\ products = (1 :> ProductConfig(1, <<ZoneB(1)>>))
    /\ key_order = <<1>>
    /\ active_product_id = 1
    /\ evaluation_count = 0 /\ good_count = 0 /\ bad_count = 0
    /\ last = NoCall
    /\ callbacks = <<"publish", "edit">>
    /\ notified = <<>>
    /\ holding_registers = NewStore.holding_registers
    /\ coils = NewStore.coils
    /\ request = NoRequest
    /\ pc = [t \in LockThreads |-> "idle"]
    /\ lock = "free"
    /\ store_lock = "free"
    /\ local = [loop |-> [scan_data |-> None, product |-> NoneId, i |-> 0],
                client |-> [address |-> 0, value |-> 0]]

locksRest == <<framerVars, ioVars, parserVars, zoneVars, last, callbacks, request>>

\* evaluate_scan(scan_data): product = self.get_active_product(), the checks
\* on it, and with self._lock
EvLock(scan_data) ==
    /\ pc["loop"] = "idle"
    /\ evaluation_count < MaxLockEvals
    /\ ~NoProductOrDisabled(GetActiveProduct)
    /\ lock = "free"
    /\ lock' = "loop"
    /\ local' = [local EXCEPT !["loop"] =
                     [scan_data |-> scan_data, product |-> GetActiveProduct, i |-> 0]]
    /\ pc' = [pc EXCEPT !["loop"] = "ev_zones"]
    /\ UNCHANGED <<store_lock, evalVars, notified, document, key_order, holding_registers,
                   coils, locksRest>>

\* the body of the with block, the product being in the catalog or not
\* any more
ZonesAndCounters ==
    \E r \in {EvaluateZones(local["loop"].scan_data,
                            IF local["loop"].product \in DOMAIN products
                            THEN products[local["loop"].product].zones ELSE <<>>, 1, TRUE)} :
        /\ products' = IF local["loop"].product \in DOMAIN products
                       THEN [products EXCEPT
                                ![local["loop"].product].zones = r.zones,
                                ![local["loop"].product].last_result =
                                    IF r.all_good THEN GOOD ELSE BAD]
                       ELSE products
        /\ evaluation_count' = evaluation_count + 1
        /\ good_count' = IF r.all_good THEN good_count + 1 ELSE good_count
        /\ bad_count' = IF r.all_good THEN bad_count ELSE bad_count + 1
        /\ notified' = <<>>
        /\ local' = [local EXCEPT !["loop"].i = 1]
        /\ pc' = [pc EXCEPT !["loop"] = "ev_notify"]
        /\ UNCHANGED <<store_lock, active_product_id, document, key_order, holding_registers,
                       coils, locksRest>>

\* mutant of the with block: the lock is still held when the callbacks run
EvZonesKeepLock ==
    /\ pc["loop"] = "ev_zones"
    /\ ZonesAndCounters
    /\ UNCHANGED lock

\* the zone loop, the verdict and the counters, and the end of the with block
EvZones ==
    /\ pc["loop"] = "ev_zones"
    /\ ZonesAndCounters
    /\ lock' = "free"

\* _notify_results: the next callback is called, or the loop has ended
EvNotify ==
    /\ pc["loop"] = "ev_notify"
    /\ pc' = [pc EXCEPT !["loop"] =
                 IF local["loop"].i > Len(callbacks) THEN "idle"
                 ELSE IF callbacks[local["loop"].i] = "publish" THEN "pub_lock"
                 ELSE "edit_lock"]
    /\ UNCHANGED <<lock, store_lock, local, evalVars, notified, document, key_order,
                   holding_registers, coils, locksRest>>

\* the application's callback: update_from_product, with self._lock
PublishLock ==
    /\ pc["loop"] = "pub_lock"
    /\ store_lock = "free"
    /\ store_lock' = "loop"
    /\ pc' = [pc EXCEPT !["loop"] = "pub_write"]
    /\ UNCHANGED <<lock, local, evalVars, notified, document, key_order, holding_registers,
                   coils, locksRest>>

\* the body of update_from_product; an exception leaves the with block and
\* is caught by _notify_results
PublishWrite ==
    /\ pc["loop"] = "pub_write"
    /\ \E s \in {UpdateFromProduct(Store,
                     IF local["loop"].product \in DOMAIN products
                     THEN products[local["loop"].product]
                     ELSE ProductConfig(local["loop"].product, <<>>),
                     Statistics(evaluation_count, good_count, bad_count))} :
           /\ holding_registers' = s.holding_registers
           /\ coils' = s.coils
           /\ notified' = Append(notified, [callback |-> local["loop"].i,
                                            product |-> local["loop"].product,
                                            raised |-> s.raised])
    /\ store_lock' = "free"
    /\ local' = [local EXCEPT !["loop"].i = @ + 1]
    /\ pc' = [pc EXCEPT !["loop"] = "ev_notify"]
    /\ UNCHANGED <<lock, evalVars, document, key_order, locksRest>>

\* the edit callback: add_product or remove_product, with self._lock
EditLock ==
    /\ pc["loop"] = "edit_lock"
    /\ lock = "free"
    /\ lock' = "loop"
    /\ pc' = [pc EXCEPT !["loop"] = "edit_store"]
    /\ UNCHANGED <<store_lock, local, evalVars, notified, document, key_order,
                   holding_registers, coils, locksRest>>

\* add_product(product 2) when the catalog has no product 2, otherwise
\* remove_product(2); each with its save_config
EditStore ==
    /\ pc["loop"] = "edit_store"
    /\ IF 2 \in DOMAIN products
       THEN /\ products' = [id \in DOMAIN products \ {2} |-> products[id]]
            /\ key_order' = SelectSeq(key_order, LAMBDA id : id # 2)
            /\ active_product_id' =
                   IF active_product_id = 2
                   THEN IF key_order' = <<>> THEN NoneId ELSE Head(key_order')
                   ELSE active_product_id
       ELSE /\ products' = (2 :> ProductConfig(2, <<>>)) @@ products
            /\ key_order' = Append(key_order, 2)
            /\ active_product_id' = IF active_product_id = NoneId THEN 2
                                    ELSE active_product_id
    /\ document' = SavedDocument(active_product_id', products', key_order')
    /\ lock' = "free"
    /\ notified' = Append(notified, [callback |-> local["loop"].i,
                                     product |-> local["loop"].product, raised |-> FALSE])
    /\ local' = [local EXCEPT !["loop"].i = @ + 1]
    /\ pc' = [pc EXCEPT !["loop"] = "ev_notify"]
    /\ UNCHANGED <<store_lock, counterVars, holding_registers, coils, locksRest>>

\* function code 0x06 for register 900 or 901: the request is decoded
ControlRequest(address, value) ==
    /\ pc["client"] = "idle"
    /\ local' = [local EXCEPT !["client"] = [address |-> address, value |-> value]]
    /\ pc' = [pc EXCEPT !["client"] = "ctl_callback"]
    /\ UNCHANGED <<lock, store_lock, evalVars, notified, document, key_order,
                   holding_registers, coils, locksRest>>

\* the control callback: reset_statistics for 1 written to register 900,
\* set_active_product(value) for register 901
ControlCallback ==
    /\ pc["client"] = "ctl_callback"
    /\ IF local["client"].address = CONTROL_BASE
       THEN /\ IF local["client"].value = 1
               THEN evaluation_count' = 0 /\ good_count' = 0 /\ bad_count' = 0
               ELSE UNCHANGED counterVars
            /\ UNCHANGED active_product_id
       ELSE /\ active_product_id' = IF local["client"].value \in DOMAIN products
                                    THEN local["client"].value ELSE active_product_id
            /\ UNCHANGED counterVars
    /\ pc' = [pc EXCEPT !["client"] = "ctl_lock"]
    /\ UNCHANGED <<lock, store_lock, local, products, notified, document, key_order,
                   holding_registers, coils, locksRest>>

\* set_holding_register: with self._lock
ControlLock ==
    /\ pc["client"] = "ctl_lock"
    /\ store_lock = "free"
    /\ store_lock' = "client"
    /\ pc' = [pc EXCEPT !["client"] = "ctl_write"]
    /\ UNCHANGED <<lock, local, evalVars, notified, document, key_order, holding_registers,
                   coils, locksRest>>

\* self.holding_registers[address] = value, and the end of the with block
ControlWrite ==
    /\ pc["client"] = "ctl_write"
    /\ holding_registers' = SetHoldingRegister(holding_registers, local["client"].address,
                                               local["client"].value)
    /\ store_lock' = "free"
    /\ pc' = [pc EXCEPT !["client"] = "idle"]
    /\ UNCHANGED <<lock, local, evalVars, notified, document, key_order, coils, locksRest>>

LoopStep ==
    \/ \E scan_data \in LockScans : EvLock(scan_data)
    \/ EvZones
    \/ EvNotify
    \/ PublishLock
    \/ PublishWrite
    \/ EditLock
    \/ EditStore

ClientStep ==
    \/ \E w \in ControlWrites : ControlRequest(w[1], w[2])
    \/ ControlCallback
    \/ ControlLock
    \/ ControlWrite

NextLocks == LoopStep \/ ClientStep

SpecLocks == InitLocks /\ [][NextLocks]_vars

\* a thread that can take a step eventually takes one: a released lock wakes
\* a thread that waits for it, and no statement blocks otherwise
SpecLocksFair == SpecLocks /\ SF_vars(LoopStep) /\ SF_vars(ClientStep)

\* the evaluator's lock is not held by the event loop while a result
\* callback runs on behalf of evaluate_scan; no thread holds the evaluator's
\* lock while it takes or holds the store's lock; the client does not hold
\* the store's lock while the control callback runs
LockDiscipline ==
    /\ pc["loop"] \in {"ev_notify", "pub_lock", "pub_write", "edit_lock"} => lock # "loop"
    /\ \A t \in LockThreads :
          (store_lock = t \/ pc[t] \in {"pub_lock", "ctl_lock"}) => lock # t
    /\ pc["client"] = "ctl_callback" => store_lock # "client"

(***************************************************************************)
(* C37: deadlock freedom across the two locks.  The evaluator's lock is    *)
(* never held while a result callback runs or while the store's lock is    *)
(* acquired, the store's lock is never held while a control callback runs, *)
(* and every evaluate (its result callbacks, the one that calls            *)
(* add_product or remove_product included) and every control-register      *)
(* write that has begun comes to its end.                                  *)
(***************************************************************************)
C37_DeadlockFree ==
    /\ []LockDiscipline
    /\ \A t \in LockThreads : (pc[t] # "idle") ~> (pc[t] = "idle")

\* the event loop is in the edit callback, waiting for or holding the
\* evaluator's lock, while the client holds the store's lock
C37_Witness ==
    /\ pc["loop"] \in {"edit_lock", "edit_store"}
    /\ store_lock = "client"
    /\ evaluation_count > 0

(***************************************************************************)
(* The frame of the bulk update.  In SpecApp the application's callback    *)
(* publishes every verdict with update_from_product, and clients write the *)
(* control registers between the evaluations.                              *)
(***************************************************************************)
\* an evaluate_scan that returned the product: its verdict has been published
Published == (\E scan_data \in AppScans : EvaluateScan(scan_data)) /\ last'.ret = "product"

\* the registers that belong to neither the status block nor a zone block
\* that the store has room for
OutsideBlocks ==
    {a \in 0..(NumRegisters - 1) :
        /\ a >= STATUS_BASE + 10
        /\ \A i \in 0..(MAX_ZONES - 1) :
              ZONE_BASE + i * ZONE_SIZE + 14 <= NumRegisters
                  => (a < ZONE_BASE + i * ZONE_SIZE \/ a >= ZONE_BASE + i * ZONE_SIZE + 14)}

(***************************************************************************)
(* C38: the bulk verdict update writes only the status registers 0..9, the *)
(* zone blocks and the verdict coils: it leaves the control registers 900  *)
(* and 901 as they are and addresses no register outside the store.        *)
(* The code violates it: the block of zone index 8 is registers 900..913,  *)
(* so clearing (or writing) that zone overwrites both control registers,   *)
(* and the block of zone index 9 begins at register 1000, past the end of  *)
(* the 1000 registers.                                                     *)
(***************************************************************************)
C38_UpdateFrame ==
    [][Published =>
          /\ holding_registers'[CONTROL_BASE] = holding_registers[CONTROL_BASE]
          /\ holding_registers'[CONTROL_BASE + 1] = holding_registers[CONTROL_BASE + 1]
          /\ \A k \in 1..Len(notified') : ~notified'[k].raised]_vars

\* what the update does: both control registers are zero after it, the index
\* of zone 9 is outside the list, and the registers outside the status block
\* and the blocks of the zones 0..8 keep their values
UpdateClearsControl ==
    [][Published =>
          /\ holding_registers'[CONTROL_BASE] = 0
          /\ holding_registers'[CONTROL_BASE + 1] = 0
          /\ notified'[1].raised
          /\ \A a \in OutsideBlocks : holding_registers'[a] = holding_registers[a]]_vars

\* does not hold either: a client wrote 2 to register 901 and the next
\* update left 0 there
ControlNeverOverwritten ==
    [][~(Published /\ holding_registers[CONTROL_BASE + 1] = 2
                   /\ holding_registers'[CONTROL_BASE + 1] = 0)]_vars

(***************************************************************************)
(* Read requests.  A client sends a frame with a transaction id and a      *)
(* request of function code 0x01 (Read Coils) or 0x03 (Read Holding        *)
(* Registers); _handle_client sends what _process_request returns behind   *)
(* an MBAP header that repeats the transaction id, and closes the          *)
(* connection without a response when _process_request raises.             *)
(***************************************************************************)
\* get_coils(address, count): self.coils[address:address + count]
GetCoils(address, count) ==
    [k \in 1..Max0(Min(address + count, NumCoils) - address) |-> coils[address + k - 1]]

\* result[i // 8] |= (1 << (i % 8)) for the coils that are set: byte j
PackCoils(values, j) ==
    LET Bit(i) == IF i < Len(values) /\ values[i + 1] THEN 2 ^ (i % 8) ELSE 0
    IN  Bit(8 * j) + Bit(8 * j + 1) + Bit(8 * j + 2) + Bit(8 * j + 3)
        + Bit(8 * j + 4) + Bit(8 * j + 5) + Bit(8 * j + 6) + Bit(8 * j + 7)

\* the connection is closed, nothing is sent
NoResponse == [sent |-> FALSE, transaction_id |-> 0, byte_count |-> 0, data |-> <<>>]

\* the frame sent for a read: the transaction id of its header, the first
\* byte of the response and the bytes after it
ReadResponse(transaction_id, byte_count, data) ==
    [sent |-> TRUE, transaction_id |-> transaction_id, byte_count |-> byte_count, data |-> data]

\* function code 0x01: bytes([byte_count]) raises for a byte count above 255
ReadCoilsResponse(transaction_id, start_addr, count) ==
    LET byte_count == (count + 7) \div 8
    IN  IF byte_count > 255 THEN NoResponse
        ELSE ReadResponse(transaction_id, byte_count,
                          [j \in 1..byte_count |-> PackCoils(GetCoils(start_addr, count), j - 1)])

\* function code 0x03: struct.pack('>B', byte_count) raises for a byte count
\* above 255; two bytes follow for each register the store returned
ReadRegistersResponse(transaction_id, start_addr, count) ==
    LET byte_count == count * 2
    IN  IF byte_count > 255 THEN NoResponse
        ELSE \* one evaluation of the slice
             CHOOSE r \in
                 {ReadResponse(transaction_id, byte_count,
                               [k \in 1..(2 * Len(registers)) |->
                                   BytesU16(registers[(k + 1) \div 2])[2 - (k % 2)]]) :
                  registers \in {GetHoldingRegisters(start_addr, count)}} : TRUE

\* a frame with a read request arrives and is answered
ReadRequest(fc, transaction_id, start_addr, count) ==
    /\ request' = [fc |-> fc, address |-> start_addr, value |-> count,
                   transaction_id |-> transaction_id,
                   response |-> IF fc = 1
                                THEN ReadCoilsResponse(transaction_id, start_addr, count)
                                ELSE ReadRegistersResponse(transaction_id, start_addr, count)]
    /\ UNCHANGED <<products, active_product_id, counterVars, last, holding_registers, coils,
                   framerVars, ioVars, parserVars, threadVars, notifyVars, persistVars, zoneVars>>

\* transaction ids of one and of two bytes
TransactionIds == {7, 4660}

\* start addresses: the beginning, near the end and the end of the coils
\* and of the registers
ReadStarts == {0, NumCoils - 2, NumCoils, NumRegisters - 2, NumRegisters}

\* quantities: none, a few, the largest the protocol allows for registers,
\* and the first whose register byte count needs more than a byte
ReadCounts == {0, 1, 2, 9, 125, 128}

InitRead ==
    /\ InitStore
    /\ Len(products[1].zones) = 2
    /\ products[1].zones[1].point_count = 3
    /\ evaluation_count = 70000

NextRead ==
    \/ \E product_id \in {1, 2} : StoreUpdate(product_id)
    \/ \E fc \in {1, 3}, transaction_id \in TransactionIds, start_addr \in ReadStarts,
          count \in ReadCounts : ReadRequest(fc, transaction_id, start_addr, count)

SpecRead == InitRead /\ [][NextRead]_vars

\* the data bytes the protocol prescribes for the request
DataBytes == IF request.fc = 1 THEN (request.value + 7) \div 8 ELSE 2 * request.value

\* the response to the last request is well formed
WellFormed ==
    /\ request.response.sent
    /\ request.response.transaction_id = request.transaction_id
    /\ request.response.byte_count = DataBytes
    /\ Len(request.response.data) = request.response.byte_count

(***************************************************************************)
(* C39: every Read Coils and Read Holding Registers request (start, N) is  *)
(* answered by a response with the request's transaction id whose byte     *)
(* count is the number of data bytes that follow, 2 * N for registers and  *)
(* ceil(N / 8) for coils, also when start + N is past the end of the       *)
(* store.                                                                  *)
(* The code violates it for registers: the byte count is 2 * N while the   *)
(* slice of the store has only the registers up to its end, and a count of *)
(* 128 or more gets no response at all.                                    *)
(***************************************************************************)
C39_WellFormedRead == request # NoRequest => WellFormed

\* what holds: a register read that stays within the store and within 127
\* registers is well formed, and so is every coil read of the model
ReadWithinStore ==
    (/\ request # NoRequest
     /\ \/ request.fc = 1
        \/ request.address + request.value <= NumRegisters /\ request.value < 128)
        => WellFormed

\* a response that is sent has the request's transaction id
TransactionIdEchoed ==
    (request # NoRequest /\ request.response.sent)
        => request.response.transaction_id = request.transaction_id

====
